---- MODULE Spec2Model ----
(***************************************************************************)
(* A model of the flatfile package (github.com/nathangreene3/flatfile).     *)
(*                                                                         *)
(* The repository holds two revisions of the package side by side:         *)
(*   - the formatter-backed revision: Format, Field, Line (a sorted slice  *)
(*     of fields plus a key index) and a FlatFile whose Formatter chooses  *)
(*     the formats of every raw line (line.go, field.go, format.go,        *)
(*     flatfile.go from line 213 on);                                      *)
(*   - the map-backed revision: Line = map[string]string, LineFmt =        *)
(*     map[string]Format and a FlatFile with one LineFmt for all lines.    *)
(*                                                                         *)
(* Strings and byte slices are sequences of one-character strings.  Go     *)
(* slices are modelled with their backing arrays on a heap, so that two    *)
(* Line values can share (or not share) their fields.  Positions inside a  *)
(* sequence are 1-based here (Go position p is p+1), while a format's      *)
(* index (the byte offset inside a raw line) stays 0-based as in the code. *)
(***************************************************************************)
EXTENDS Integers, Sequences, FiniteSets, TLC

VARIABLES
    obj,      \* what the caller of this run works on: "field", "line", "file",
              \* "read", "out", "sort" (formatter-backed revision), "mapline",
              \* "linefmt", "mapfile", "mapread", "mapout", "mapsort" (map-backed
              \* revision)
    heap,     \* backing arrays of the []Field slices: address -> sequence of fields
    held,     \* the *Line values the caller holds: ln := NewLine(...), cpy := ln.Copy()
    mheap,    \* the maps behind the map-backed Line values: address -> map
    mheld,    \* the map-backed Line values the caller holds (addresses, 0 is nil)
    lf,       \* the LineFmt the caller holds
    formats,  \* FlatFile.formats: the formatter the flat file was made with
    lines,    \* FlatFile.lines of the formatter-backed flat file
    goos,     \* runtime.GOOS
    lineFmt,  \* FlatFile.lineFmt of the map-backed flat file
    mlines,   \* FlatFile.lines of the map-backed flat file
    last      \* history: the last call, its arguments and what it returned

sliceVars == <<heap, held>>
mapVars == <<mheap, mheld, lf>>
fileVars == <<formats, lines, goos>>
mfileVars == <<lineFmt, mlines>>
vars == <<obj, heap, held, mheap, mheld, lf, formats, lines, goos, lineFmt, mlines, last>>

(***************************************************************************)
(* Bounds of the model and the input alphabets.                            *)
(***************************************************************************)
MaxRaw == 2          \* the longest raw line handed to NewLine
MaxFmts == 2         \* the longest list of formats handed to NewLine
MaxLines == 2        \* the most lines a flat file holds
MaxFileRaw == 3      \* the longest raw line handed to a flat file
MaxStream == 4       \* the longest stream handed to ReadFrom
MaxText == 3         \* the longest stream of a flat file that is written out again
MaxSortLines == 3    \* the most lines a flat file that is sorted holds

SP == " "
CR == "\r"
LF == "\n"
Char == {"a", SP}                    \* the bytes of a raw line
Keys == {"k1", "k2", "k3"}           \* the keys of the formats
KeyOf == <<"k1", "k2", "k3", "k4">>   \* the key of the i-th format of a list
Handles == {1, 2}                    \* the lines the caller holds: ln and cpy
Addr == 1 .. (MaxLines + MaxStream + 2)   \* heap addresses; 0 is nil

Min(a, b) == IF a < b THEN a ELSE b
Max(a, b) == IF a < b THEN b ELSE a

Strs(alphabet, n) == UNION {[1 .. k -> alphabet] : k \in 0 .. n}

\* The values handed to Set, SetAt and NewField: the prefixes of "x yx y..."
\* up to one byte more than the widest field.
ValPattern(n) == [i \in 1 .. n |-> <<"x", SP, "y">>[((i - 1) % 3) + 1]]
SetVals == {ValPattern(n) : n \in 0 .. MaxRaw + 1}

(***************************************************************************)
(* The Go runtime and library calls the code makes.                        *)
(***************************************************************************)
\* What a call that panicked evaluates to (no byte of any alphabet).
Panic == <<"panic">>

\* strings.Repeat(" ", n), bytes.Repeat([]byte{' '}, n): panics when n < 0.
Repeat(c, n) == IF n < 0 THEN Panic ELSE [i \in 1 .. n |-> c]

\* s[lo:hi] of a string: the runtime panics unless 0 <= lo <= hi <= len(s).
SliceOK(s, lo, hi) == 0 <= lo /\ lo <= hi /\ hi <= Len(s)
Slice(s, lo, hi) == IF SliceOK(s, lo, hi) THEN SubSeq(s, lo + 1, hi) ELSE Panic

\* strings.Trim(s, cutset), bytes.Trim(s, cutset): every leading and every
\* trailing byte of the cutset is removed.
RECURSIVE TrimLeft(_, _)
TrimLeft(s, cutset) ==
    IF s # <<>> /\ Head(s) \in cutset THEN TrimLeft(Tail(s), cutset) ELSE s

RECURSIVE TrimRight(_, _)
TrimRight(s, cutset) ==
    IF s # <<>> /\ s[Len(s)] \in cutset
    THEN TrimRight(SubSeq(s, 1, Len(s) - 1), cutset)
    ELSE s

Trim(s, cutset) == TrimRight(TrimLeft(s, cutset), cutset)

\* sort.Slice(xs, less): the result is a permutation of xs in which no
\* element is less than an earlier one; the order of elements neither of
\* which is less than the other is not specified.  lt is the less function
\* as the set of the pairs <<i, j>> of positions with less(xs[i], xs[j]).
Perms(n) == {p \in [1 .. n -> 1 .. n] : \A i, j \in 1 .. n : i # j => p[i] # p[j]}
SortSlice(xs, lt) ==
    {[i \in 1 .. Len(xs) |-> xs[p[i]]] : p \in
        {q \in Perms(Len(xs)) :
            \A i, j \in 1 .. Len(xs) : i < j => <<q[j], q[i]>> \notin lt}}

(***************************************************************************)
(* format.go: Format.  field.go: Field.                                    *)
(***************************************************************************)
NewFormatAtLeastOne(key, index, length) ==
    [key |-> key, index |-> index, length |-> IF length < 1 THEN 1 ELSE length]

\* NewFormat keeps the key, the index and the length it is given.
NewFormat(key, index, length) == [key |-> key, index |-> index, length |-> length]

\* NewField truncates the value to the format length.
NewFieldKeepsValue(key, value, index, length) ==
    [key |-> key, index |-> index, length |-> length, value |-> value]

NewField(key, value, index, length) ==
    [key |-> key, index |-> index, length |-> length,
     value |-> IF length < Len(value) THEN Slice(value, 0, length) ELSE value]

FieldBytesPadLeft(f) ==
    LET pad == Repeat(SP, f.length - Len(f.value))
    IN  IF pad = Panic THEN Panic ELSE pad \o f.value

\* Field.Bytes: the value followed by length - len(value) spaces.
FieldBytes(f) ==
    LET pad == Repeat(SP, f.length - Len(f.value))
    IN  IF pad = Panic THEN Panic ELSE f.value \o pad

\* Field.String: string(fld.Bytes()).
FieldString(f) == FieldBytes(f)

(***************************************************************************)
(* line.go: Line.  A Line value is the slice header of its fields (the     *)
(* address of the backing array), its key index and its length.  The key   *)
(* index maps every key to the position of its field, 0 for a key that is  *)
(* not in the map.                                                         *)
(***************************************************************************)
NilLine == [fields |-> 0, keyToIndex |-> [k \in Keys |-> 0], length |-> 0]

Fields(hp, ln) == hp[ln.fields]

KeyToIndexFirst(fs) ==
    [k \in Keys |->
        LET at == {i \in 1 .. Len(fs) : fs[i].key = k}
        IN  IF at = {} THEN 0 ELSE CHOOSE i \in at : \A j \in at : i <= j]

\* The loop of NewLine that fills keyToIndex: a later field overwrites the
\* entry of an earlier field with the same key.
KeyToIndex(fs) ==
    [k \in Keys |->
        LET at == {i \in 1 .. Len(fs) : fs[i].key = k}
        IN  IF at = {} THEN 0 ELSE CHOOSE i \in at : \A j \in at : j <= i]

FmtInBounds(line, f) == SliceOK(line, f.index, f.index + f.length)

ParsedFieldsNoTrim(line, fmts) ==
    [i \in 1 .. Len(fmts) |->
        [key |-> fmts[i].key, index |-> fmts[i].index, length |-> fmts[i].length,
         value |-> Slice(line, fmts[i].index, fmts[i].index + fmts[i].length)]]

\* The fields NewLine builds before it sorts them.
ParsedFields(line, fmts) ==
    [i \in 1 .. Len(fmts) |->
        [key |-> fmts[i].key, index |-> fmts[i].index, length |-> fmts[i].length,
         value |-> Trim(Slice(line, fmts[i].index, fmts[i].index + fmts[i].length), {SP})]]

GreaterIndex(f, g) == g.index < f.index
\* The less function NewLine hands to sort.Slice.
LessIndex(f, g) == f.index < g.index

NewLineFieldsUnsorted(line, fmts) == {ParsedFields(line, fmts)}

\* The field arrays NewLine(line, fmts...) can produce (all formats in bounds).
NewLineFields(line, fmts) ==
    LET fs == ParsedFields(line, fmts)
    IN  SortSlice(fs, {ij \in (1 .. Len(fs)) \X (1 .. Len(fs)) : LessIndex(fs[ij[1]], fs[ij[2]])})

\* Line.String and Line.Bytes: the same walk over the fields, one on a
\* strings.Builder and one on a bytes.Buffer.
RECURSIVE WriteFields(_, _, _)
WriteFields(fs, i, sb) ==
    IF i > Len(fs) THEN sb
    ELSE LET pad == Repeat(SP, fs[i].index - Len(sb))
             out == FieldString(fs[i])
         IN  IF pad = Panic \/ out = Panic THEN Panic
             ELSE WriteFields(fs, i + 1, sb \o pad \o out)

LineStringOfNoTail(fs, length) == WriteFields(fs, 1, <<>>)

LineStringOf(fs, length) ==
    LET sb == WriteFields(fs, 1, <<>>)
    IN  IF sb = Panic THEN Panic
        ELSE LET pad == Repeat(SP, length - Len(sb))
             IN  IF pad = Panic THEN Panic ELSE sb \o pad

LineString(hp, ln) == LineStringOf(Fields(hp, ln), ln.length)
LineBytes(hp, ln) == LineStringOf(Fields(hp, ln), ln.length)

\* Line.ValueAt, Line.Formats.
Values(hp, ln) == [i \in 1 .. Len(Fields(hp, ln)) |-> Fields(hp, ln)[i].value]
Formats(hp, ln) ==
    [i \in 1 .. Len(Fields(hp, ln)) |->
        NewFormat(Fields(hp, ln)[i].key, Fields(hp, ln)[i].index, Fields(hp, ln)[i].length)]

\* Line.SetAt: the value is cut to the field's length and stored in place.
SetAtValueNoCut(f, value) == value
SetAtValue(f, value) == IF f.length < Len(value) THEN Slice(value, 0, f.length) ELSE value

SetAtHeap(hp, ln, i, value) ==
    [hp EXCEPT ![ln.fields][i].value = SetAtValue(hp[ln.fields][i], value)]

\* Line.Field, Line.Value, Line.Index, Line.Length: what the field of the key
\* holds, or the zero value and a missing-key error.
LineFieldNoError(hp, ln, key) ==
    [ret |-> IF ln.keyToIndex[key] # 0 THEN hp[ln.fields][ln.keyToIndex[key]]
             ELSE NewField("", <<>>, 0, 0),
     err |-> ""]

LineField(hp, ln, key) ==
    IF ln.keyToIndex[key] # 0
    THEN [ret |-> hp[ln.fields][ln.keyToIndex[key]], err |-> ""]
    ELSE [ret |-> NewField("", <<>>, 0, 0), err |-> "MissingKeyError"]

LineValue(hp, ln, key) ==
    IF ln.keyToIndex[key] # 0
    THEN [val |-> hp[ln.fields][ln.keyToIndex[key]].value, err |-> ""]
    ELSE [val |-> <<>>, err |-> "MissingKeyError"]

LineIndex(hp, ln, key) ==
    IF ln.keyToIndex[key] # 0
    THEN [i |-> hp[ln.fields][ln.keyToIndex[key]].index, err |-> ""]
    ELSE [i |-> 0, err |-> "MissingKeyError"]

LineLength(hp, ln, key) ==
    IF ln.keyToIndex[key] # 0
    THEN [n |-> hp[ln.fields][ln.keyToIndex[key]].length, err |-> ""]
    ELSE [n |-> 0, err |-> "MissingKeyError"]

(***************************************************************************)
(* The heap.                                                               *)
(***************************************************************************)
Live(hd, lns) == ({hd[x].fields : x \in Handles} \cup {lns[i].fields : i \in 1 .. Len(lns)}) \ {0}
FreeAddr(hd, lns) == CHOOSE a \in Addr \ Live(hd, lns) : \A b \in Addr \ Live(hd, lns) : a <= b
\* The arrays no Line refers to are collected.
Collect(hp, hd, lns) == [a \in Addr |-> IF a \in Live(hd, lns) THEN hp[a] ELSE <<>>]

\* Line.Copy: a new backing array with the same fields, a new key map.
CopySharesFields(hd, lns, ln) == ln.fields
CopyAddr(hd, lns, ln) == FreeAddr(hd, lns)

(***************************************************************************)
(* The map-backed revision: Line = map[string]string (field name ->        *)
(* contents), LineFmt = map[string]FieldFmt.  A map is a function on the   *)
(* keys; a key that is not in the map has the value None (NoFmt).          *)
(***************************************************************************)
None == <<"none">>
MapKeys == {"k1", "k2"}
MapVals == {<<>>, <<"x">>, <<"x", SP>>}
MapAddr == {1, 2, 3}
EmptyMap == [k \in MapKeys |-> None]

MapLineContains(m, key) == m[key] # None

\* Line.Copy: a new map with the same entries.
MapLineCopy(m) == [k \in MapKeys |-> m[k]]

MapLineGet(m, key) ==
    IF MapLineContains(m, key) THEN [val |-> m[key], err |-> ""]
    ELSE [val |-> <<>>, err |-> "errFieldNotExist"]

MapLineSet(m, key, contents) == [m EXCEPT ![key] = contents]

MapLineInsertOverwrites(m, key, contents) ==
    [map |-> [m EXCEPT ![key] = contents], err |-> IF m[key] # None THEN "errFieldExists" ELSE ""]

\* Line.Insert: an error when the field name exists, else the entry is added.
MapLineInsert(m, key, contents) ==
    IF MapLineContains(m, key) THEN [map |-> m, err |-> "errFieldExists"]
    ELSE [map |-> [m EXCEPT ![key] = contents], err |-> ""]

MapLineDelete(m, key) ==
    IF MapLineContains(m, key) THEN [map |-> [m EXCEPT ![key] = None], err |-> ""]
    ELSE [map |-> m, err |-> "errFieldNotExist"]

MapLineLen(m) == Cardinality({k \in MapKeys : m[k] # None})

MapLive(mh) == {mh[x] : x \in Handles} \ {0}
MapFree(mh) == CHOOSE a \in MapAddr \ MapLive(mh) : \A b \in MapAddr \ MapLive(mh) : a <= b
MapCollect(hp, mh) == [a \in MapAddr |-> IF a \in MapLive(mh) THEN hp[a] ELSE EmptyMap]
MapCopySharesMap(mh, a) == a
MapCopyAddr(mh, a) == MapFree(mh)

\* fieldfmt.go: FieldFmt, NewFieldFmt.
NewFieldFmt(index, length) == [index |-> index, length |-> length]
NoFmt == NewFieldFmt(-1, -1)
FieldFmts == {NewFieldFmt(0, 1), NewFieldFmt(1, 1), NewFieldFmt(0, 2)}
EmptyLineFmt == [k \in MapKeys |-> NoFmt]

LineFmtContains(m, key) == m[key] # NoFmt
LineFmtSet(m, key, f) == [m EXCEPT ![key] = f]

LineFmtInsertOverwrites(m, key, f) ==
    [map |-> [m EXCEPT ![key] = f], err |-> IF m[key] # NoFmt THEN "errFieldExists" ELSE ""]

\* LineFmt.Insert: an error when the field name exists, else the entry is added.
LineFmtInsert(m, key, f) ==
    IF LineFmtContains(m, key) THEN [map |-> m, err |-> "errFieldExists"]
    ELSE [map |-> [m EXCEPT ![key] = f], err |-> ""]

LineFmtDelete(m, key) ==
    IF LineFmtContains(m, key) THEN [map |-> [m EXCEPT ![key] = NoFmt], err |-> ""]
    ELSE [map |-> m, err |-> "errFieldNotExist"]

(***************************************************************************)
(* flatfile.go, the formatter-backed flat file: FlatFile{formats, lines}.  *)
(* A formatter is named by an id; Formatter(id, line) is what it returns   *)
(* for a line: nil, or a list of formats.                                  *)
(*   "byLength"  the formatter of TestFlatFile with its widths scaled      *)
(*               down: one format list per accepted line length, nil for   *)
(*               every other length;                                       *)
(*   "atLeast"   one format list, of a record of three bytes, for every    *)
(*               line of two bytes or more, nil for a shorter line;        *)
(*   "byWidth"   the formatter of TestFlatFile scaled down to lines of     *)
(*               one, two and three bytes, nil for every other length.     *)
(***************************************************************************)
NilFmts == [nil |-> TRUE, fmts |-> <<>>]
SomeFmts(fs) == [nil |-> FALSE, fmts |-> fs]
Formatters == {"byLength", "atLeast"}

Formatter(id, line) ==
    IF id = "byLength"
    THEN CASE Len(line) = 1 -> SomeFmts(<<NewFormat("k1", 0, 1)>>)
           [] Len(line) = 3 -> SomeFmts(<<NewFormat("k1", 0, 1), NewFormat("k2", 1, 2)>>)
           [] OTHER -> NilFmts
    ELSE IF id = "byWidth"
    THEN CASE Len(line) = 1 -> SomeFmts(<<NewFormat("k1", 0, 1)>>)
           [] Len(line) = 2 -> SomeFmts(<<NewFormat("k1", 0, 1), NewFormat("k2", 1, 1)>>)
           [] Len(line) = 3 -> SomeFmts(<<NewFormat("k3", 0, 3)>>)
           [] OTHER -> NilFmts
    ELSE IF Len(line) < 2 THEN NilFmts ELSE SomeFmts(<<NewFormat("k1", 0, 3)>>)

\* What a call on the flat file leaves: the error, the lines and the heap.
FileResult(err, lns, hp, line) == [err |-> err, lines |-> lns, heap |-> hp, line |-> line]

AppendStrIgnoresNil(hp, hd, lns, id, line) ==
    LET r == Formatter(id, line)
    IN  IF \E i \in 1 .. Len(r.fmts) : ~FmtInBounds(line, r.fmts[i])
        THEN {FileResult("panic", lns, hp, <<>>)}
        ELSE {FileResult("", Append(lns, [fields |-> FreeAddr(hd, lns),
                                         keyToIndex |-> KeyToIndex(fs),
                                         length |-> Len(line)]),
                         [hp EXCEPT ![FreeAddr(hd, lns)] = fs], <<>>) :
                 fs \in NewLineFields(line, r.fmts)}

\* FlatFile.AppendStr(line): a ParsingError when the formatter returns nil;
\* else NewLine (which panics on a format out of the line's bounds) and
\* Append of a copy of the new line.  The results the call can have.
AppendStr(hp, hd, lns, id, line) ==
    LET r == Formatter(id, line)
    IN  IF r.nil THEN {FileResult("ParsingError", lns, hp, line)}
        ELSE IF \E i \in 1 .. Len(r.fmts) : ~FmtInBounds(line, r.fmts[i])
        THEN {FileResult("panic", lns, hp, <<>>)}
        ELSE {FileResult("", Append(lns, [fields |-> FreeAddr(hd, lns),
                                         keyToIndex |-> KeyToIndex(fs),
                                         length |-> Len(line)]),
                         [hp EXCEPT ![FreeAddr(hd, lns)] = fs], <<>>) :
                 fs \in NewLineFields(line, r.fmts)}

\* FlatFile.SetStr(i, line), i counted from 1: a ParsingError when the
\* formatter returns nil; else NewLine (which panics on a format out of the
\* line's bounds) and Set(i, ...), which panics unless i is a position of the
\* flat file and else puts a copy of the new line there.
SetStr(hp, hd, lns, id, i, line) ==
    LET r == Formatter(id, line)
    IN  IF r.nil THEN {FileResult("ParsingError", lns, hp, line)}
        ELSE IF \E k \in 1 .. Len(r.fmts) : ~FmtInBounds(line, r.fmts[k])
        THEN {FileResult("panic", lns, hp, <<>>)}
        ELSE IF i \notin 1 .. Len(lns) THEN {FileResult("panic", lns, hp, <<>>)}
        ELSE {FileResult("", [lns EXCEPT ![i] = [fields |-> FreeAddr(hd, lns),
                                                keyToIndex |-> KeyToIndex(fs),
                                                length |-> Len(line)]],
                         [hp EXCEPT ![FreeAddr(hd, lns)] = fs], <<>>) :
                 fs \in NewLineFields(line, r.fmts)}

\* FlatFile.ByteLen: one byte (two on Windows) and the length of every line.
RECURSIVE SumLengths(_, _)
SumLengths(lns, i) == IF i > Len(lns) THEN 0 ELSE lns[i].length + SumLengths(lns, i + 1)

ByteLen(lns, os) == (IF os = "windows" THEN 2 * Len(lns) ELSE Len(lns)) + SumLengths(lns, 1)

\* bytes.Split(s, sep) for a separator of one byte.
RECURSIVE Split(_, _)
Split(s, sep) ==
    IF \A i \in 1 .. Len(s) : s[i] # sep THEN <<s>>
    ELSE LET at == CHOOSE i \in 1 .. Len(s) : s[i] = sep /\ \A j \in 1 .. i - 1 : s[j] # sep
         IN  <<SubSeq(s, 1, at - 1)>> \o Split(SubSeq(s, at + 1, Len(s)), sep)

ReadTrimSuffix(b) == IF b # <<>> /\ b[Len(b)] = CR THEN SubSeq(b, 1, Len(b) - 1) ELSE b
\* bts[i] = bytes.Trim(bts[i], "\r")
ReadTrim(b) == Trim(b, {CR})

ReadLoopGoesOn(r) == r.err = "panic"
\* ReadFrom returns at the first Write that fails.
ReadLoopStops(r) == r.err # ""

\* The loop of ReadFrom over the fragments bts[i], bts[i+1], ...
RECURSIVE ReadLoop(_, _, _, _, _, _)
ReadLoop(hp, hd, lns, id, bts, i) ==
    IF i > Len(bts) THEN {FileResult("", lns, hp, <<>>)}
    ELSE IF ReadTrim(bts[i]) = <<>> THEN ReadLoop(hp, hd, lns, id, bts, i + 1)
    ELSE UNION {IF ReadLoopStops(r) THEN {r}
                ELSE ReadLoop(r.heap, hd, r.lines, id, bts, i + 1) :
                   r \in AppendStr(hp, hd, lns, id, ReadTrim(bts[i]))}

ReadFromCountsStream(lns0, lns, os, stream) == Len(stream)
\* The count ReadFrom returns: ff.ByteLen() - n0.
ReadFromCount(lns0, lns, os, stream) == ByteLen(lns, os) - ByteLen(lns0, os)

\* What a caller can see of a line and of the flat file.
LineViewOf(hp, ln) ==
    [values |-> Values(hp, ln), formats |-> Formats(hp, ln),
     keyToIndex |-> ln.keyToIndex, length |-> ln.length, string |-> LineString(hp, ln)]
FileView(hp, lns) == [i \in 1 .. Len(lns) |-> LineViewOf(hp, lns[i])]

(***************************************************************************)
(* unnamed/part_006, the map-backed flat file: FlatFile{lineFmt, lines}.   *)
(***************************************************************************)
\* FlatFile.append(ln): a copy of ln in which every field of the line format
\* is cut to its length and trimmed, or empty when ln does not have it.
MapFileAppendLine(fmt, ln) ==
    [k \in MapKeys |->
        IF LineFmtContains(fmt, k)
        THEN IF MapLineContains(ln, k)
             THEN Trim(Slice(ln[k], 0, Min(Len(ln[k]), fmt[k].length)), {SP})
             ELSE <<>>
        ELSE ln[k]]

SetFieldTruncates(fmt, lns, i, fieldName, fieldContents) ==
    IF ~LineFmtContains(fmt, fieldName) THEN [err |-> "errFieldNotExist", lines |-> lns]
    ELSE IF i > Len(lns) THEN [err |-> "panic", lines |-> lns]
    ELSE [err |-> "",
          lines |-> [lns EXCEPT ![i] = MapLineSet(lns[i], fieldName,
                        Slice(fieldContents, 0, Min(Len(fieldContents), fmt[fieldName].length)))]]

\* FlatFile.SetField(i, fieldName, fieldContents), i counted from 1.
SetField(fmt, lns, i, fieldName, fieldContents) ==
    IF ~LineFmtContains(fmt, fieldName) THEN [err |-> "errFieldNotExist", lines |-> lns]
    ELSE IF fmt[fieldName].length < Len(fieldContents)
    THEN [err |-> "errFieldLengthRestriction", lines |-> lns]
    ELSE IF i > Len(lns) THEN [err |-> "panic", lines |-> lns]
    ELSE [err |-> "", lines |-> [lns EXCEPT ![i] = MapLineSet(lns[i], fieldName, fieldContents)]]

RestoreNothing(lns, i, oldLn) == lns

\* ff.lines[i] = oldLn, which restores the line Set began with.
Restore(lns, i, oldLn) == [lns EXCEPT ![i] = oldLn]

\* The loop of FlatFile.Set(i, ln) of part_006 over the fields of ln that are
\* still to do, in any order (the order of a range over a map is not
\* specified): SetField for each, and at the first error the line is
\* restored and the error returned.
RECURSIVE MapSetLoop(_, _, _, _, _, _)
MapSetLoop(fmt, lns, i, ln, todo, oldLn) ==
    IF todo = {} THEN {[err |-> "", lines |-> lns]}
    ELSE UNION {LET r == SetField(fmt, lns, i, k, ln[k])
                IN  IF r.err # "" THEN {[err |-> r.err, lines |-> Restore(lns, i, oldLn)]}
                    ELSE MapSetLoop(fmt, r.lines, i, ln, todo \ {k}, oldLn) :
                   k \in todo}

\* FlatFile.Set(i, ln) of part_006, i counted from 1: ff.lines[i].Copy()
\* panics unless i is a position of the flat file.
MapFileSet(fmt, lns, i, ln) ==
    IF i \notin 1 .. Len(lns) THEN {[err |-> "panic", lines |-> lns]}
    ELSE MapSetLoop(fmt, lns, i, ln, {k \in MapKeys : MapLineContains(ln, k)},
                    MapLineCopy(lns[i]))

\* A byte of a buffer that lies past the length of the buffer's content.
NUL == "NUL"

\* FlatFile.appendBts(b): the lines it can make of b.  A field that ends past
\* len(b) makes b[f.index:f.index+f.length] panic when it also ends past
\* cap(b); when b is a slice of a larger buffer with capacity left (the
\* fragments of bytes.Split are, where the library does not cap them) the
\* field takes the bytes that follow b in that buffer: after, then NULs.
AppendBtsLines(fmt, b, after) ==
    LET lineOf(buf) ==
            [k \in MapKeys |->
                IF LineFmtContains(fmt, k)
                THEN Trim(Slice(buf, fmt[k].index, fmt[k].index + fmt[k].length), {SP})
                ELSE None]
    IN  IF \A k \in MapKeys :
              LineFmtContains(fmt, k) => fmt[k].index + fmt[k].length <= Len(b)
        THEN {lineOf(b)}
        ELSE {Panic, lineOf(b \o after \o [i \in 1 .. MaxFileRaw |-> NUL])}

\* The loop of ReadFrom over the fragments of cts between line feeds, from
\* the fragment that starts at offset from: empty fragments are skipped.
RECURSIVE MapReadLoop(_, _, _, _)
MapReadLoop(fmt, lns, cts, from) ==
    IF from > Len(cts) THEN {[err |-> "", lines |-> lns]}
    ELSE LET rest == SubSeq(cts, from + 1, Len(cts))
             b == Split(rest, LF)[1]
             next == from + Len(b) + 1
         IN  IF b = <<>> THEN MapReadLoop(fmt, lns, cts, next)
             ELSE UNION {IF ln = Panic THEN {[err |-> "panic", lines |-> lns]}
                         ELSE MapReadLoop(fmt, Append(lns, ln), cts, next) :
                            ln \in AppendBtsLines(fmt, b, SubSeq(rest, Len(b) + 1, Len(rest)))}

\* ReadFrom(r): errLineFmtNotInit for a flat file without a line format.
MapReadFrom(fmt, lns, cts) ==
    IF \A k \in MapKeys : ~LineFmtContains(fmt, k)
    THEN {[err |-> "errLineFmtNotInit", lines |-> lns]}
    ELSE MapReadLoop(fmt, lns, cts, 0)

\* What ReadFrom returns when it has read cts: int64(len(cts)).
MapReadFromCount(cts, lns0, lns) == Len(cts)

\* The line formats the map-backed flat file is made with, New(lf).
FileLineFmts ==
    {[k \in MapKeys |-> IF k = "k1" THEN NewFieldFmt(0, 1) ELSE NewFieldFmt(1, 2)],
     [k \in MapKeys |-> IF k = "k1" THEN NewFieldFmt(0, 2) ELSE NoFmt]}

(***************************************************************************)
(* Reordering and removing the lines of a flat file.                       *)
(***************************************************************************)
\* The less functions handed to Sort: that of TestFlatFile, which puts the
\* longer line first, and its converse.
Lesses == {"longerFirst", "shorterFirst"}

LineLessNever(id, line0, line1) == FALSE

LineLess(id, line0, line1) ==
    IF id = "longerFirst" THEN line1.length < line0.length ELSE line0.length < line1.length

SortLinesKeepsOrder(lns, id) == {lns}
SortLinesRepeatsFirst(lns, id) == {[i \in 1 .. Len(lns) |-> lns[1]]}

\* FlatFile.Sort(less): sort.Slice on ff.lines; the orders it can leave.
SortLines(lns, id) ==
    SortSlice(lns, {ij \in (1 .. Len(lns)) \X (1 .. Len(lns)) :
                       LineLess(id, lns[ij[1]], lns[ij[2]])})

RemoveAtLast(lns, i) == SubSeq(lns, 1, Len(lns) - 1)

\* append(ff.lines[:i], ff.lines[i+1:]...), i a position of lns counted from 1.
RemoveAt(lns, i) == SubSeq(lns, 1, i - 1) \o SubSeq(lns, i + 1, Len(lns))

SwapLinesOverwrites(lns, i, j) == [lns EXCEPT ![i] = lns[j]]

\* FlatFile.Swap(i, j) of part_006, i and j positions of lns counted from 1.
SwapLines(lns, i, j) == [lns EXCEPT ![i] = lns[j], ![j] = lns[i]]

(***************************************************************************)
(* Writing a flat file out.                                                *)
(***************************************************************************)
\* The strings of the lines from the i-th on, each followed by the line
\* ending; a panic of Line.String is a panic of the whole.
RECURSIVE JoinEach(_, _, _, _)
JoinEach(hp, lns, lineEnding, i) ==
    IF i > Len(lns) THEN <<>>
    ELSE LET s == LineString(hp, lns[i])
             rest == JoinEach(hp, lns, lineEnding, i + 1)
         IN  IF s = Panic \/ rest = Panic THEN Panic ELSE s \o lineEnding \o rest

FileBytesNoLastEnding(hp, lns, os) ==
    LET lineEnding == IF os = "windows" THEN <<CR, LF>> ELSE <<LF>>
        out == JoinEach(hp, lns, lineEnding, 1)
    IN  IF out = Panic \/ out = <<>> THEN out
        ELSE SubSeq(out, 1, Len(out) - Len(lineEnding))

\* FlatFile.Bytes of flatfile.go: every line and, after every line, the line
\* ending: CRLF on Windows, else LF.
FileBytes(hp, lns, os) ==
    JoinEach(hp, lns, IF os = "windows" THEN <<CR, LF>> ELSE <<LF>>, 1)

\* FlatFile.String of flatfile.go: every line and, after every line, "\n".
FileString(hp, lns) == JoinEach(hp, lns, <<LF>>, 1)

\* FieldFmt.Compare(fieldFmt) < 0: by index, then by length.
FieldFmtLess(f, g) == f.index < g.index \/ (f.index = g.index /\ f.length < g.length)

\* FlatFile.Fields(i) of part_006: one field for every entry of the line
\* format, with the contents the line has under that name ("" when it has
\* none), sorted by Compare.  The fields as a sequence in some order, sorted.
MapFields(fmt, ln) ==
    LET ks == {k \in MapKeys : LineFmtContains(fmt, k)}
        unsorted == {fs \in [1 .. Cardinality(ks) -> ks] :
                        \A i, j \in 1 .. Cardinality(ks) : i # j => fs[i] # fs[j]}
        fieldOf(k) == [contents |-> IF MapLineContains(ln, k) THEN ln[k] ELSE <<>>,
                       index |-> fmt[k].index, length |-> fmt[k].length]
    IN  UNION {SortSlice([i \in 1 .. Len(fs) |-> fieldOf(fs[i])],
                         {ij \in (1 .. Len(fs)) \X (1 .. Len(fs)) :
                             FieldFmtLess(fmt[fs[ij[1]]], fmt[fs[ij[2]]])}) : fs \in unsorted}

\* FlatFile.BytesAt(i) and StringAt(i) of part_006: the contents of every
\* field followed by length - len(contents) spaces.
RECURSIVE MapWriteFields(_, _)
MapWriteFields(fs, i) ==
    IF i > Len(fs) THEN <<>>
    ELSE LET pad == Repeat(SP, fs[i].length - Len(fs[i].contents))
             rest == MapWriteFields(fs, i + 1)
         IN  IF pad = Panic \/ rest = Panic THEN Panic ELSE fs[i].contents \o pad \o rest

MapBytesAt(fmt, ln) == {MapWriteFields(fs, 1) : fs \in MapFields(fmt, ln)}

\* FlatFile.String and FlatFile.Bytes of part_006 from the i-th line on: "\n"
\* after every line but the last; nothing for a flat file without lines.
RECURSIVE MapFileString(_, _, _)
MapFileString(fmt, lns, i) ==
    IF i > Len(lns) THEN {<<>>}
    ELSE {IF s = Panic \/ rest = Panic THEN Panic
          ELSE IF i = Len(lns) THEN s ELSE s \o <<LF>> \o rest :
             s \in MapBytesAt(fmt, lns[i]), rest \in MapFileString(fmt, lns, i + 1)}

(***************************************************************************)
(* The history variable last: one record shape for every call.  ret is the *)
(* Field a call returned, line the line a ParsingError carries (the Line   *)
(* handed to Set of the map-backed flat file), pre what the flat file held *)
(* when the call was made.  For Compare, ret is the receiver, i and n are  *)
(* the index and the length of the argument and src is the int returned.   *)
(***************************************************************************)
NoCall ==
    [op |-> "none", h |-> 0, src |-> 0, i |-> 0, key |-> "", val |-> <<>>,
     err |-> "", n |-> 0, ret |-> NewField("", <<>>, 0, 0),
     line |-> <<>>, pre |-> <<>>]

Call(op) == [NoCall EXCEPT !.op = op]

\* A panic ends the program.
Alive == last.err # "panic"

(***************************************************************************)
(* The inputs of the line operations.                                      *)
(***************************************************************************)
RawLines == Strs(Char, MaxRaw)
\* The lists of at most MaxFmts formats that are in the bounds of the line
\* and do not overlap, in any order of their offsets; the i-th format of a
\* list has the i-th key.
FmtPool == {NewFormat(k, i, n) : k \in Keys, i \in 0 .. MaxRaw, n \in 1 .. MaxRaw}
Disjoint(f, g) == f.index + f.length <= g.index \/ g.index + g.length <= f.index
FmtLists(line) ==
    {fmts \in UNION {[1 .. k -> {f \in FmtPool : FmtInBounds(line, f)}] : k \in 0 .. MaxFmts} :
        /\ \A i \in 1 .. Len(fmts) : fmts[i].key = KeyOf[i]
        /\ \A i, j \in 1 .. Len(fmts) : i # j => Disjoint(fmts[i], fmts[j])}

\* The line formats of the flat files that ReadFrom is called on.
ReadLineFmts ==
    {[k \in MapKeys |-> IF k = "k1" THEN NewFieldFmt(0, 2) ELSE NoFmt], EmptyLineFmt}

\* The raw lines, values and streams handed to a flat file.
FileRaw == Strs({"a"}, MaxFileRaw)
FileVals == {[i \in 1 .. n |-> "x"] : n \in 1 .. MaxFileRaw}
Streams == Strs({"a", CR, LF}, MaxStream)
MapLines == [MapKeys -> MapVals \cup {None}]

\* The raw lines and streams handed to a flat file that is written out
\* again, and the line formats such a map-backed flat file is made with.
TextRaw == Strs(Char, MaxFileRaw)

\* The formats handed to NewFormat and the lists of formats handed to NewLine
\* when any format is allowed: a length of zero or less, a field that ends
\* past the end of the line, fields that overlap, a format with the key of
\* the first.
FmtLengths == -1 .. MaxRaw
FmtIndexes == 0 .. (MaxRaw - 1)
AnyFmtLists ==
    {fmts \in UNION {[1 .. k -> {NewFormat(key, i, n) : key \in Keys, i \in FmtIndexes,
                                                      n \in FmtLengths}] : k \in 0 .. MaxFmts} :
        \A i \in 1 .. Len(fmts) : fmts[i].key \in {KeyOf[i], KeyOf[1]}}

\* The most lines the flat file of this run holds.
LineCap == IF obj \in {"sort", "mapsort"} THEN MaxSortLines ELSE MaxLines

\* The raw lines and the map-backed lines of the flat files that are sorted,
\* and the line format of the map-backed one.
SortRaw == Strs({"a"}, MaxFileRaw) \cup {<<"b">>}
SortMapLines ==
    {[k \in MapKeys |-> IF k = "k1" THEN v ELSE None] : v \in {<<>>, <<"x">>, <<"y">>}}
SortLineFmt == [k \in MapKeys |-> IF k = "k1" THEN NewFieldFmt(0, 2) ELSE NoFmt]
TextStreams ==
    Strs({"a", SP, LF}, MaxText) \cup {<<"a", CR, LF>>, <<"a", CR, "a">>, <<"a", LF, SP, LF>>}
TextLineFmts ==
    {[k \in MapKeys |-> IF k = "k1" THEN NewFieldFmt(0, 3) ELSE NoFmt],
     [k \in MapKeys |-> IF k = "k1" THEN NewFieldFmt(0, 1) ELSE NewFieldFmt(1, 2)]}

Init ==
    /\ obj \in {"field", "line", "mapline", "linefmt", "file", "read", "mapfile", "mapread",
                "out", "mapout", "sort", "mapsort"}
    /\ heap = [a \in Addr |-> <<>>]
    /\ held = [x \in Handles |-> NilLine]
    /\ mheap = [a \in MapAddr |-> EmptyMap]
    /\ mheld = [x \in Handles |-> 0]
    /\ lf = EmptyLineFmt
    /\ formats \in (IF obj \in {"file", "read"} THEN Formatters
                    ELSE IF obj \in {"out", "sort"} THEN {"byWidth"} ELSE {"byLength"})
    /\ lines = <<>>
    /\ goos \in (IF obj \in {"read", "out"} THEN {"linux", "windows"} ELSE {"linux"})
    /\ lineFmt \in (IF obj = "mapfile" THEN FileLineFmts
                    ELSE IF obj = "mapread" THEN ReadLineFmts
                    ELSE IF obj = "mapout" THEN TextLineFmts
                    ELSE IF obj = "mapsort" THEN {SortLineFmt} ELSE {EmptyLineFmt})
    /\ mlines = <<>>
    /\ last = NoCall

(***************************************************************************)
(* Calls on lines: ln := NewLine(line, fmts...), cpy := ln.Copy(),         *)
(* ln.Set(key, value), ln.SetAt(i, value), f := NewField(...).             *)
(***************************************************************************)
\* ln := NewLine(line, fmts...): handle x, which held nothing, holds the new
\* line.  A format that is not in the bounds of the line makes the slice
\* expression of the field loop panic.  The history keeps len(fmts) in n.
DoNewLine(x, line, fmts) ==
    /\ Alive
    /\ obj = "line"
    /\ held[x] = NilLine
    /\ IF \E i \in 1 .. Len(fmts) : ~FmtInBounds(line, fmts[i])
       THEN /\ last' = [Call("NewLine") EXCEPT !.h = x, !.val = line, !.n = Len(fmts),
                                                   !.err = "panic"]
            /\ UNCHANGED <<held, heap>>
       ELSE /\ \E fs \in NewLineFields(line, fmts) :
                  LET ln == [fields |-> FreeAddr(held, lines), keyToIndex |-> KeyToIndex(fs),
                             length |-> Len(line)]
                      hd == [held EXCEPT ![x] = ln]
                  IN  /\ held' = hd
                      /\ heap' = Collect([heap EXCEPT ![ln.fields] = fs], hd, lines)
            /\ last' = [Call("NewLine") EXCEPT !.h = x, !.val = line, !.n = Len(fmts)]
    /\ UNCHANGED <<obj, mapVars, fileVars, mfileVars>>

\* cpy := ln.Copy(): handle y holds the copy of the line of handle x.
DoCopy(x, y) ==
    /\ Alive
    /\ x # y
    /\ held[x] # NilLine
    /\ LET ln == [fields |-> CopyAddr([held EXCEPT ![y] = NilLine], lines, held[x]),
                  keyToIndex |-> held[x].keyToIndex,
                  length |-> held[x].length]
           hd == [held EXCEPT ![y] = ln]
       IN  /\ held' = hd
           /\ heap' = Collect([heap EXCEPT ![ln.fields] = Fields(heap, held[x])], hd, lines)
    /\ last' = [Call("Copy") EXCEPT !.h = y, !.src = x]
    /\ UNCHANGED <<obj, mapVars, fileVars, mfileVars>>

\* ln.SetAt(i, value), i a position of the line (any other panics).
DoSetAt(x, i, value) ==
    /\ Alive
    /\ held[x] # NilLine
    /\ i \in 1 .. Len(Fields(heap, held[x]))
    /\ heap' = SetAtHeap(heap, held[x], i, value)
    /\ last' = [Call("SetAt") EXCEPT !.h = x, !.i = i, !.val = value]
    /\ UNCHANGED <<obj, held, mapVars, fileVars, mfileVars>>

\* ln.Set(key, value): SetAt at the key's position, or a missing-key error.
DoSet(x, key, value) ==
    /\ Alive
    /\ held[x] # NilLine
    /\ IF held[x].keyToIndex[key] # 0
       THEN /\ heap' = SetAtHeap(heap, held[x], held[x].keyToIndex[key], value)
            /\ last' = [Call("Set") EXCEPT !.h = x, !.key = key, !.val = value,
                                            !.i = held[x].keyToIndex[key]]
       ELSE /\ heap' = heap
            /\ last' = [Call("Set") EXCEPT !.h = x, !.key = key, !.val = value,
                                            !.err = "missing key"]
    /\ UNCHANGED <<obj, held, mapVars, fileVars, mfileVars>>

\* A lookup by key on the line of handle x that returns r: the field, value,
\* index or length in ret, val, i or n, and the error.
LookupCall(x, op, key, r) ==
    /\ Alive
    /\ held[x] # NilLine
    /\ last' = [Call(op) EXCEPT !.h = x, !.key = key, !.ret = r.ret, !.val = r.val,
                                !.i = r.i, !.n = r.n, !.err = r.err]
    /\ UNCHANGED <<obj, sliceVars, mapVars, fileVars, mfileVars>>

NoReturn == [ret |-> NewField("", <<>>, 0, 0), val |-> <<>>, i |-> 0, n |-> 0]

DoField(x, key) ==
    obj = "line" /\ LookupCall(x, "Field", key,
        [NoReturn EXCEPT !.ret = LineField(heap, held[x], key).ret] @@
        [err |-> LineField(heap, held[x], key).err])
DoValue(x, key) ==
    obj = "line" /\ LookupCall(x, "Value", key,
        [NoReturn EXCEPT !.val = LineValue(heap, held[x], key).val] @@
        [err |-> LineValue(heap, held[x], key).err])
DoIndex(x, key) ==
    obj = "line" /\ LookupCall(x, "Index", key,
        [NoReturn EXCEPT !.i = LineIndex(heap, held[x], key).i] @@
        [err |-> LineIndex(heap, held[x], key).err])
DoLength(x, key) ==
    obj = "line" /\ LookupCall(x, "Length", key,
        [NoReturn EXCEPT !.n = LineLength(heap, held[x], key).n] @@
        [err |-> LineLength(heap, held[x], key).err])

\* f := NewFormat(key, index, length): the history keeps the arguments in
\* key, i and n and the format returned in ret.
DoNewFormat(key, index, length) ==
    /\ Alive
    /\ obj = "field"
    /\ LET f == NewFormat(key, index, length)
       IN  last' = [Call("NewFormat") EXCEPT !.key = key, !.i = index, !.n = length,
                        !.ret = [key |-> f.key, index |-> f.index, length |-> f.length,
                                 value |-> <<>>]]
    /\ UNCHANGED <<obj, sliceVars, mapVars, fileVars, mfileVars>>

\* f := NewFieldFmt(index, length): the same for a field format, which has
\* no key.
DoNewFieldFmt(index, length) ==
    /\ Alive
    /\ obj = "field"
    /\ LET f == NewFieldFmt(index, length)
       IN  last' = [Call("NewFieldFmt") EXCEPT !.i = index, !.n = length,
                        !.ret = [key |-> "", index |-> f.index, length |-> f.length,
                                 value |-> <<>>]]
    /\ UNCHANGED <<obj, sliceVars, mapVars, fileVars, mfileVars>>

\* f := NewField(key, value, index, length).
DoNewField(key, value, index, length) ==
    /\ Alive
    /\ obj = "field"
    /\ last' = [Call("NewField") EXCEPT !.key = key, !.val = value,
                                         !.ret = NewField(key, value, index, length)]
    /\ UNCHANGED <<obj, sliceVars, mapVars, fileVars, mfileVars>>

(***************************************************************************)
(* Calls on the map-backed lines and on a LineFmt.                         *)
(***************************************************************************)
\* ln := make(Line)
DoMakeLine(x) ==
    /\ Alive
    /\ obj = "mapline"
    /\ mheld[x] = 0
    /\ LET mh == [mheld EXCEPT ![x] = MapFree(mheld)]
       IN  /\ mheld' = mh
           /\ mheap' = MapCollect([mheap EXCEPT ![mh[x]] = EmptyMap], mh)
    /\ last' = [Call("make(Line)") EXCEPT !.h = x]
    /\ UNCHANGED <<obj, sliceVars, lf, fileVars, mfileVars>>

\* cpy := ln.Copy()
DoMapCopy(x, y) ==
    /\ Alive
    /\ x # y
    /\ mheld[x] # 0
    /\ LET mh == [mheld EXCEPT ![y] = MapCopyAddr([mheld EXCEPT ![y] = 0], mheld[x])]
       IN  /\ mheld' = mh
           /\ mheap' = MapCollect([mheap EXCEPT ![mh[y]] = MapLineCopy(mheap[mheld[x]])], mh)
    /\ last' = [Call("MapCopy") EXCEPT !.h = y, !.src = x]
    /\ UNCHANGED <<obj, sliceVars, lf, fileVars, mfileVars>>

\* A call on the map of handle x that returns res = [map, err].
MapCall(x, op, key, value, res) ==
    /\ Alive
    /\ mheld[x] # 0
    /\ mheap' = [mheap EXCEPT ![mheld[x]] = res.map]
    /\ last' = [Call(op) EXCEPT !.h = x, !.key = key, !.val = value, !.err = res.err,
                                !.pre = mheap[mheld[x]]]
    /\ UNCHANGED <<obj, sliceVars, mheld, lf, fileVars, mfileVars>>

DoMapInsert(x, key, value) ==
    obj = "mapline" /\ MapCall(x, "MapInsert", key, value, MapLineInsert(mheap[mheld[x]], key, value))
DoMapSet(x, key, value) ==
    obj = "mapline" /\ MapCall(x, "MapSet", key, value, [map |-> MapLineSet(mheap[mheld[x]], key, value), err |-> ""])
DoMapDelete(x, key) ==
    obj = "mapline" /\ MapCall(x, "MapDelete", key, <<>>, MapLineDelete(mheap[mheld[x]], key))
\* contents, err := ln.Get(key): the history keeps the contents returned.
DoMapGet(x, key) ==
    obj = "mapline" /\ MapCall(x, "MapGet", key, MapLineGet(mheap[mheld[x]], key).val,
                              [map |-> mheap[mheld[x]], err |-> MapLineGet(mheap[mheld[x]], key).err])

\* A call on the caller's LineFmt that returns res = [map, err].
FmtCall(op, key, f, res) ==
    /\ Alive
    /\ lf' = res.map
    /\ last' = [Call(op) EXCEPT !.key = key, !.i = f.index, !.n = f.length, !.err = res.err,
                                !.pre = lf]
    /\ UNCHANGED <<obj, sliceVars, mheap, mheld, fileVars, mfileVars>>

DoFmtInsert(key, f) == obj = "linefmt" /\ FmtCall("FmtInsert", key, f, LineFmtInsert(lf, key, f))
DoFmtSet(key, f) == obj = "linefmt" /\ FmtCall("FmtSet", key, f, [map |-> LineFmtSet(lf, key, f), err |-> ""])
DoFmtDelete(key) == obj = "linefmt" /\ FmtCall("FmtDelete", key, NoFmt, LineFmtDelete(lf, key))

(***************************************************************************)
(* Calls on the formatter-backed flat file, ff := New(formats).             *)
(***************************************************************************)
\* A call that appends the line: AppendStr, AppendBts, Write, WriteString.
\* Write and WriteString also return len(line), 0 with an error.
FileAppendCall(op, line, counts) ==
    /\ Alive
    /\ \E r \in AppendStr(heap, held, lines, formats, line) :
          /\ Len(r.lines) <= LineCap
          /\ lines' = r.lines
          /\ heap' = r.heap
          /\ last' = [Call(op) EXCEPT !.val = line, !.err = r.err, !.line = r.line,
                                      !.n = IF counts /\ r.err = "" THEN Len(line) ELSE 0,
                                      !.pre = FileView(heap, lines)]
    /\ UNCHANGED <<obj, held, mapVars, formats, goos, mfileVars>>

DoAppendStr(line) == obj \in {"file", "read", "out", "sort"} /\ FileAppendCall("AppendStr", line, FALSE)
DoAppendBts(line) == obj = "file" /\ FileAppendCall("AppendBts", line, FALSE)
DoWrite(line) == obj = "file" /\ FileAppendCall("Write", line, TRUE)
DoWriteString(line) == obj = "file" /\ FileAppendCall("WriteString", line, TRUE)

\* ff.SetValue(i, key, value), i counted from 1: ff.lines[i].Set(key, value).
DoSetValue(i, key, value) ==
    /\ Alive
    /\ obj = "file"
    /\ IF i > Len(lines)
       THEN /\ heap' = heap
            /\ last' = [Call("SetValue") EXCEPT !.i = i, !.key = key, !.val = value,
                                                !.err = "panic", !.pre = FileView(heap, lines)]
       ELSE IF lines[i].keyToIndex[key] # 0
       THEN /\ heap' = SetAtHeap(heap, lines[i], lines[i].keyToIndex[key], value)
            /\ last' = [Call("SetValue") EXCEPT !.i = i, !.key = key, !.val = value,
                                                !.pre = FileView(heap, lines)]
       ELSE /\ heap' = heap
            /\ last' = [Call("SetValue") EXCEPT !.i = i, !.key = key, !.val = value,
                                                !.err = "MissingKeyError",
                                                !.pre = FileView(heap, lines)]
    /\ UNCHANGED <<obj, held, mapVars, fileVars, mfileVars>>

\* ff.SetValueAt(i, j, value), i and j counted from 1:
\* ff.lines[i].SetAt(j, value), which panics unless i is a position of the
\* flat file and j one of the line.
DoSetValueAt(i, j, value) ==
    /\ Alive
    /\ obj = "file"
    /\ IF i \in 1 .. Len(lines) /\ j \in 1 .. Len(Fields(heap, lines[i]))
       THEN /\ heap' = SetAtHeap(heap, lines[i], j, value)
            /\ last' = [Call("SetValueAt") EXCEPT !.i = i, !.n = j, !.val = value,
                                                  !.pre = FileView(heap, lines)]
       ELSE /\ heap' = heap
            /\ last' = [Call("SetValueAt") EXCEPT !.i = i, !.n = j, !.val = value,
                                                  !.err = "panic",
                                                  !.pre = FileView(heap, lines)]
    /\ UNCHANGED <<obj, held, mapVars, fileVars, mfileVars>>

\* ff.SetStr(i, line), i counted from 1.
DoSetStr(i, line) ==
    /\ Alive
    /\ obj = "file"
    /\ \E r \in SetStr(heap, held, lines, formats, i, line) :
          /\ lines' = r.lines
          /\ heap' = Collect(r.heap, held, r.lines)
          /\ last' = [Call("SetStr") EXCEPT !.i = i, !.val = line, !.err = r.err,
                                            !.line = r.line, !.pre = FileView(heap, lines)]
    /\ UNCHANGED <<obj, held, mapVars, formats, goos, mfileVars>>

\* ln := ff.Line(i), i counted from 1: handle x holds a copy of the i-th
\* line; ff.lines[i] panics unless i is a position of the flat file.
DoLine(i, x) ==
    /\ Alive
    /\ obj = "file"
    /\ IF i \in 1 .. Len(lines)
       THEN LET ln == [fields |-> CopyAddr([held EXCEPT ![x] = NilLine], lines, lines[i]),
                       keyToIndex |-> lines[i].keyToIndex,
                       length |-> lines[i].length]
                hd == [held EXCEPT ![x] = ln]
            IN  /\ held' = hd
                /\ heap' = Collect([heap EXCEPT ![ln.fields] = Fields(heap, lines[i])],
                                   hd, lines)
                /\ last' = [Call("Line") EXCEPT !.i = i, !.h = x,
                                                !.pre = FileView(heap, lines)]
       ELSE /\ UNCHANGED <<held, heap>>
            /\ last' = [Call("Line") EXCEPT !.i = i, !.h = x, !.err = "panic",
                                            !.pre = FileView(heap, lines)]
    /\ UNCHANGED <<obj, mapVars, fileVars, mfileVars>>

\* ff.Append(ln), ln the line of handle x: a copy of ln is appended.
DoAppend(x) ==
    /\ Alive
    /\ obj = "file"
    /\ held[x] # NilLine
    /\ Len(lines) < LineCap
    /\ LET ln == [fields |-> CopyAddr(held, lines, held[x]),
                  keyToIndex |-> held[x].keyToIndex,
                  length |-> held[x].length]
       IN  /\ lines' = Append(lines, ln)
           /\ heap' = [heap EXCEPT ![ln.fields] = Fields(heap, held[x])]
    /\ last' = [Call("Append") EXCEPT !.h = x, !.pre = FileView(heap, lines)]
    /\ UNCHANGED <<obj, held, mapVars, formats, goos, mfileVars>>

\* ff.Set(i, *ln), ln the line of handle x, i counted from 1: a copy of ln
\* is made and ff.lines[i] = ... panics unless i is a position of the flat
\* file.
DoFileSet(i, x) ==
    /\ Alive
    /\ obj = "file"
    /\ held[x] # NilLine
    /\ IF i \in 1 .. Len(lines)
       THEN LET ln == [fields |-> CopyAddr(held, lines, held[x]),
                       keyToIndex |-> held[x].keyToIndex,
                       length |-> held[x].length]
                lns == [lines EXCEPT ![i] = ln]
            IN  /\ lines' = lns
                /\ heap' = Collect([heap EXCEPT ![ln.fields] = Fields(heap, held[x])],
                                   held, lns)
                /\ last' = [Call("FileSet") EXCEPT !.i = i, !.h = x,
                                                   !.pre = FileView(heap, lines)]
       ELSE /\ UNCHANGED <<lines, heap>>
            /\ last' = [Call("FileSet") EXCEPT !.i = i, !.h = x, !.err = "panic",
                                               !.pre = FileView(heap, lines)]
    /\ UNCHANGED <<obj, held, mapVars, formats, goos, mfileVars>>

\* ff.Clear()
DoClear ==
    /\ Alive
    /\ obj \in {"file", "read", "out", "sort"}
    /\ lines # <<>>
    /\ lines' = <<>>
    /\ heap' = Collect(heap, held, <<>>)
    /\ last' = [Call("Clear") EXCEPT !.pre = FileView(heap, lines)]
    /\ UNCHANGED <<obj, held, mapVars, formats, goos, mfileVars>>

\* ff.ReadFrom(r), r a reader that delivers the stream and then io.EOF.
DoReadFrom(stream) ==
    /\ Alive
    /\ obj \in {"read", "out"}
    /\ \E r \in ReadLoop(heap, held, lines, formats, Split(stream, LF), 1) :
          /\ Len(r.lines) <= MaxLines
          /\ lines' = r.lines
          /\ heap' = r.heap
          /\ last' = [Call("ReadFrom") EXCEPT !.val = stream, !.err = r.err, !.line = r.line,
                          !.n = IF r.err = "panic" THEN 0
                                ELSE ReadFromCount(lines, r.lines, goos, stream),
                          !.pre = FileView(heap, lines)]
    /\ UNCHANGED <<obj, held, mapVars, formats, goos, mfileVars>>

\* ff.ReadFrom(r), r a reader whose Read fails with an error other than
\* io.EOF: what was read is dropped.
DoReadFromFailing ==
    /\ Alive
    /\ obj = "read"
    /\ last' = [Call("ReadFrom") EXCEPT !.err = "read", !.pre = FileView(heap, lines),
                                         !.n = ReadFromCount(lines, lines, goos, <<>>)]
    /\ UNCHANGED <<obj, sliceVars, mapVars, fileVars, mfileVars>>

(***************************************************************************)
(* Calls on the map-backed flat file, ff := New(lineFmt).                  *)
(***************************************************************************)
\* ff.Append(ln)
DoMapFileAppend(ln) ==
    /\ Alive
    /\ obj \in {"mapfile", "mapsort"}
    /\ Len(mlines) < LineCap
    /\ mlines' = Append(mlines, MapFileAppendLine(lineFmt, ln))
    /\ last' = [Call("MapFileAppend") EXCEPT !.pre = mlines]
    /\ UNCHANGED <<obj, sliceVars, mapVars, fileVars, lineFmt>>

\* ff.AppendBts(b), b a byte slice of the caller's: the bytes that follow b
\* in its backing array, if it has any, are zero.
DoMapAppendBts(b) ==
    /\ Alive
    /\ obj = "mapout"
    /\ Len(mlines) < MaxLines
    /\ \E ln \in AppendBtsLines(lineFmt, b, <<>>) :
          /\ mlines' = IF ln = Panic THEN mlines ELSE Append(mlines, ln)
          /\ last' = [Call("MapAppendBts") EXCEPT !.val = b, !.pre = mlines,
                          !.err = IF ln = Panic THEN "panic" ELSE ""]
    /\ UNCHANGED <<obj, sliceVars, mapVars, fileVars, lineFmt>>

\* ff.SetField(i, fieldName, fieldContents), i counted from 1.
DoSetField(i, fieldName, fieldContents) ==
    /\ Alive
    /\ obj = "mapfile"
    /\ LET r == SetField(lineFmt, mlines, i, fieldName, fieldContents)
       IN  /\ mlines' = r.lines
           /\ last' = [Call("SetField") EXCEPT !.i = i, !.key = fieldName,
                                               !.val = fieldContents, !.err = r.err,
                                               !.pre = mlines]
    /\ UNCHANGED <<obj, sliceVars, mapVars, fileVars, lineFmt>>

\* ff.Set(i, ln), i counted from 1; the history keeps ln in line.
DoMapFileSet(i, ln) ==
    /\ Alive
    /\ obj = "mapfile"
    /\ \E r \in MapFileSet(lineFmt, mlines, i, ln) :
          /\ mlines' = r.lines
          /\ last' = [Call("MapFileSet") EXCEPT !.i = i, !.line = ln, !.err = r.err,
                                                !.pre = mlines]
    /\ UNCHANGED <<obj, sliceVars, mapVars, fileVars, lineFmt>>

\* ff.ReadFrom(r), r a reader that delivers the stream and then io.EOF.
DoMapReadFrom(stream) ==
    /\ Alive
    /\ obj = "mapread"
    /\ \E r \in MapReadFrom(lineFmt, mlines, stream) :
          /\ Len(r.lines) <= MaxLines
          /\ mlines' = r.lines
          /\ last' = [Call("MapReadFrom") EXCEPT !.val = stream, !.err = r.err, !.pre = mlines,
                          !.n = IF r.err = "" THEN MapReadFromCount(stream, mlines, r.lines)
                                ELSE 0]
    /\ UNCHANGED <<obj, sliceVars, mapVars, fileVars, lineFmt>>

\* ff.ReadFrom(r), r a reader that fails: ioutil.ReadAll returns its error.
DoMapReadFromFailing ==
    /\ Alive
    /\ obj = "mapread"
    /\ last' = [Call("MapReadFrom") EXCEPT
                    !.err = IF \A k \in MapKeys : ~LineFmtContains(lineFmt, k)
                            THEN "errLineFmtNotInit" ELSE "read",
                    !.pre = mlines]
    /\ UNCHANGED <<obj, sliceVars, mapVars, fileVars, mfileVars>>

\* ff.Reset()
DoReset ==
    /\ Alive
    /\ obj \in {"mapfile", "mapread", "mapout", "mapsort"}
    /\ mlines # <<>>
    /\ mlines' = <<>>
    /\ last' = [Call("Reset") EXCEPT !.pre = mlines]
    /\ UNCHANGED <<obj, sliceVars, mapVars, fileVars, lineFmt>>

(***************************************************************************)
(* Writing the flat file out: b := ff.Bytes(), s := ff.String() and, of    *)
(* the map-backed flat file, ff.WriteTo(w).                                *)
(***************************************************************************)
\* A call that returns the bytes out and leaves the flat file as it is.
FileOutCall(op, out) ==
    /\ Alive
    /\ last' = [Call(op) EXCEPT !.val = IF out = Panic THEN <<>> ELSE out,
                                !.err = IF out = Panic THEN "panic" ELSE "",
                                !.pre = FileView(heap, lines)]
    /\ UNCHANGED <<obj, sliceVars, mapVars, fileVars, mfileVars>>

DoBytes == obj = "out" /\ FileOutCall("Bytes", FileBytes(heap, lines, goos))
DoString == obj = "out" /\ FileOutCall("String", FileString(heap, lines))

\* A call on the map-backed flat file that returns, or writes, what
\* ff.String() makes; WriteTo also returns the count of the bytes the writer
\* took, here all of them.
MapOutCall(op, counts) ==
    /\ Alive
    /\ \E out \in MapFileString(lineFmt, mlines, 1) :
          last' = [Call(op) EXCEPT !.val = IF out = Panic THEN <<>> ELSE out,
                                  !.err = IF out = Panic THEN "panic" ELSE "",
                                  !.n = IF counts /\ out # Panic THEN Len(out) ELSE 0,
                                  !.pre = mlines]
    /\ UNCHANGED <<obj, sliceVars, mapVars, fileVars, mfileVars>>

DoMapBytes == obj = "mapout" /\ MapOutCall("MapBytes", FALSE)
DoMapString == obj = "mapout" /\ MapOutCall("MapString", FALSE)
DoMapWriteTo == obj = "mapout" /\ MapOutCall("MapWriteTo", TRUE)

(***************************************************************************)
(* Reordering and removing lines: ff.Sort(less) and ln := ff.Remove(i) of  *)
(* flatfile.go, ff.Swap(i, j) and ln := ff.Remove(i) of part_006.  The     *)
(* positions i and j are counted from 1: Go's i is i - 1.                  *)
(***************************************************************************)
\* ff.Sort(less)
DoSort(id) ==
    /\ Alive
    /\ obj = "sort"
    /\ \E sorted \in SortLines(lines, id) : lines' = sorted
    /\ last' = [Call("Sort") EXCEPT !.key = id, !.pre = FileView(heap, lines)]
    /\ UNCHANGED <<obj, sliceVars, mapVars, formats, goos, mfileVars>>

\* ln := ff.Remove(i): ff.lines[i] panics unless i is a position of the
\* flat file; else ln, handle 1, is the line that was there.
DoRemove(i) ==
    /\ Alive
    /\ obj \in {"sort", "file"}
    /\ IF i \in 1 .. Len(lines)
       THEN LET hd == [held EXCEPT ![1] = lines[i]]
            IN  /\ held' = hd
                /\ lines' = RemoveAt(lines, i)
                /\ heap' = Collect(heap, hd, RemoveAt(lines, i))
                /\ last' = [Call("Remove") EXCEPT !.i = i, !.h = 1,
                                                  !.pre = FileView(heap, lines)]
       ELSE /\ UNCHANGED <<held, lines, heap>>
            /\ last' = [Call("Remove") EXCEPT !.i = i, !.err = "panic",
                                              !.pre = FileView(heap, lines)]
    /\ UNCHANGED <<obj, mapVars, formats, goos, mfileVars>>

\* ln := ff.Remove(i) of part_006: ln is ff.lines[i] when i < len(ff.lines),
\* and after that ff.lines[i+1:] (or ff.lines[i], ff.lines[:i]) panics
\* unless i is a position of the flat file.
DoMapRemove(i) ==
    /\ Alive
    /\ obj = "mapsort"
    /\ IF i \in 1 .. Len(mlines)
       THEN LET mh == [mheld EXCEPT ![1] = MapFree([mheld EXCEPT ![1] = 0])]
            IN  /\ mheld' = mh
                /\ mheap' = MapCollect([mheap EXCEPT ![mh[1]] = mlines[i]], mh)
                /\ mlines' = RemoveAt(mlines, i)
                /\ last' = [Call("MapRemove") EXCEPT !.i = i, !.h = 1, !.pre = mlines]
       ELSE /\ UNCHANGED <<mheld, mheap, mlines>>
            /\ last' = [Call("MapRemove") EXCEPT !.i = i, !.err = "panic", !.pre = mlines]
    /\ UNCHANGED <<obj, sliceVars, lf, fileVars, lineFmt>>

\* ff.Swap(i, j) of part_006: ff.lines[i] and ff.lines[j] panic unless both
\* are positions of the flat file.
DoSwap(i, j) ==
    /\ Alive
    /\ obj = "mapsort"
    /\ IF i \in 1 .. Len(mlines) /\ j \in 1 .. Len(mlines)
       THEN /\ mlines' = SwapLines(mlines, i, j)
            /\ last' = [Call("Swap") EXCEPT !.i = i, !.n = j, !.pre = mlines]
       ELSE /\ mlines' = mlines
            /\ last' = [Call("Swap") EXCEPT !.i = i, !.n = j, !.err = "panic", !.pre = mlines]
    /\ UNCHANGED <<obj, sliceVars, mapVars, fileVars, lineFmt>>

NextLine ==
    \/ \E line \in RawLines : \E fmts \in FmtLists(line) : DoNewLine(1, line, fmts)
    \/ DoCopy(1, 2)
    \/ \E x \in Handles, i \in 1 .. MaxFmts, v \in SetVals : DoSetAt(x, i, v)
    \/ \E x \in Handles, k \in Keys, v \in SetVals : DoSet(x, k, v)
    \/ \E k \in Keys, v \in SetVals, i \in 0 .. MaxRaw, n \in 0 .. MaxRaw : DoNewField(k, v, i, n)
    \/ DoMakeLine(1)
    \/ DoMapCopy(1, 2)
    \/ \E x \in Handles, k \in MapKeys, v \in MapVals : DoMapInsert(x, k, v)
    \/ \E x \in Handles, k \in MapKeys, v \in MapVals : DoMapSet(x, k, v)
    \/ \E x \in Handles, k \in MapKeys : DoMapDelete(x, k)
    \/ \E k \in MapKeys, f \in FieldFmts : DoFmtInsert(k, f)
    \/ \E k \in MapKeys, f \in FieldFmts : DoFmtSet(k, f)
    \/ \E k \in MapKeys : DoFmtDelete(k)

SpecLine == Init /\ [][NextLine]_vars

NextFile ==
    \/ \E line \in FileRaw : DoAppendStr(line)
    \/ \E line \in FileRaw : DoAppendBts(line)
    \/ \E line \in FileRaw : DoWrite(line)
    \/ \E line \in FileRaw : DoWriteString(line)
    \/ \E i \in 1 .. MaxLines, k \in Keys, v \in FileVals : DoSetValue(i, k, v)
    \/ DoClear
    \/ \E ln \in MapLines : DoMapFileAppend(ln)
    \/ \E i \in 1 .. MaxLines, k \in MapKeys, v \in FileVals : DoSetField(i, k, v)
    \/ DoReset

SpecFile == Init /\ [][NextFile]_vars

NextRead ==
    \/ \E line \in FileRaw : DoAppendStr(line)
    \/ DoClear
    \/ \E stream \in Streams : DoReadFrom(stream)
    \/ DoReadFromFailing
    \/ \E stream \in Streams : DoMapReadFrom(stream)
    \/ DoMapReadFromFailing
    \/ DoReset

SpecRead == Init /\ [][NextRead]_vars

NextText ==
    \/ \E line \in TextRaw : DoAppendStr(line)
    \/ DoClear
    \/ \E stream \in TextStreams : DoReadFrom(stream)
    \/ DoBytes
    \/ DoString
    \/ \E b \in TextRaw : DoMapAppendBts(b)
    \/ DoMapBytes
    \/ DoMapString
    \/ DoMapWriteTo
    \/ DoReset

SpecText == Init /\ [][NextText]_vars

NextSort ==
    \/ \E line \in SortRaw : DoAppendStr(line)
    \/ \E id \in Lesses : DoSort(id)
    \/ \E i \in 0 .. MaxSortLines + 1 : DoRemove(i)
    \/ DoClear
    \/ \E ln \in SortMapLines : DoMapFileAppend(ln)
    \/ \E i, j \in 1 .. MaxSortLines : DoSwap(i, j)
    \/ \E i \in 0 .. MaxSortLines + 1 : DoMapRemove(i)
    \/ DoReset

SpecSort == Init /\ [][NextSort]_vars

NextKeys ==
    \/ \E line \in RawLines : \E fmts \in FmtLists(line) : DoNewLine(1, line, fmts)
    \/ \E key \in Keys : DoField(1, key)
    \/ \E key \in Keys : DoValue(1, key)
    \/ \E key \in Keys : DoIndex(1, key)
    \/ \E key \in Keys : DoLength(1, key)
    \/ \E key \in Keys, value \in SetVals : DoSet(1, key, value)
    \/ DoMakeLine(1)
    \/ \E key \in MapKeys, value \in MapVals : DoMapInsert(1, key, value)
    \/ \E key \in MapKeys, value \in MapVals : DoMapSet(1, key, value)
    \/ \E key \in MapKeys : DoMapDelete(1, key)
    \/ \E key \in MapKeys : DoMapGet(1, key)
    \/ \E line \in FileRaw : DoAppendStr(line)
    \/ \E i \in 1 .. MaxLines, key \in Keys, value \in FileVals : DoSetValue(i, key, value)

SpecKeys == Init /\ [][NextKeys]_vars

NextParse ==
    \/ \E key \in Keys, index \in FmtIndexes, length \in FmtLengths : DoNewFormat(key, index, length)
    \/ \E index \in FmtIndexes, length \in FmtLengths : DoNewFieldFmt(index, length)
    \/ \E line \in RawLines : \E fmts \in AnyFmtLists : DoNewLine(1, line, fmts)
    \/ \E line \in TextRaw : DoAppendStr(line)
    \/ DoClear
    \/ \E stream \in TextStreams : DoReadFrom(stream)
    \/ \E b \in TextRaw : DoMapAppendBts(b)
    \/ DoReset

SpecParse == Init /\ [][NextParse]_vars

\* The format lists of the lines that are stored and set: those of FmtLists
\* and a format without width.
StoreFmtLists(line) == FmtLists(line) \cup {<<NewFormat("k1", 0, 0)>>}

NextStore ==
    \/ \E line \in RawLines : \E fmts \in StoreFmtLists(line) : DoNewLine(1, line, fmts)
    \/ DoCopy(1, 2)
    \/ \E x \in Handles, i \in 1 .. MaxFmts, v \in SetVals : DoSetAt(x, i, v)
    \/ \E x \in Handles, k \in Keys, v \in SetVals : DoSet(x, k, v)
    \/ \E line \in FileRaw : DoAppendStr(line)
    \/ \E i \in 1 .. MaxLines, k \in Keys, v \in FileVals : DoSetValue(i, k, v)
    \/ \E i \in 1 .. MaxLines, j \in 1 .. MaxFmts, v \in FileVals : DoSetValueAt(i, j, v)
    \/ \E i \in 1 .. MaxLines, line \in FileRaw : DoSetStr(i, line)
    \/ DoClear
    \/ \E stream \in TextStreams : DoReadFrom(stream)
    \/ \E ln \in MapLines : DoMapFileAppend(ln)
    \/ \E i \in 1 .. MaxLines, ln \in MapLines : DoMapFileSet(i, ln)
    \/ DoReset

SpecStore == Init /\ [][NextStore]_vars

\* The value the caller and the flat file set fields to when lines go from
\* the one to the other.
OwnVals == {<<"x">>}

NextOwn ==
    \/ \E line \in FileRaw : DoAppendStr(line)
    \/ \E i \in 1 .. MaxLines : DoLine(i, 1)
    \/ DoAppend(1)
    \/ \E i \in 1 .. MaxLines : DoFileSet(i, 1)
    \/ \E i \in 1 .. MaxLines : DoRemove(i)
    \/ \E v \in OwnVals : DoSet(1, "k1", v)
    \/ \E v \in OwnVals : DoSetAt(1, 1, v)
    \/ \E i \in 1 .. MaxLines, v \in OwnVals : DoSetValue(i, "k1", v)
    \/ DoClear

SpecOwn == Init /\ [][NextOwn]_vars

\* The format lists of the lines that are encoded: at most MaxFmts formats in
\* the bounds of the line, in any order, overlapping or not.
EncodeFmtLists(line) ==
    {fmts \in UNION {[1 .. k -> {f \in {NewFormat(key, i, n) : key \in Keys,
                                           i \in 0 .. MaxFileRaw - 1, n \in 1 .. MaxFileRaw} :
                                    FmtInBounds(line, f)}] : k \in 0 .. MaxFmts} :
        \A i \in 1 .. Len(fmts) : fmts[i].key = KeyOf[i]}

NextEncode ==
    \/ \E line \in FileRaw : \E fmts \in EncodeFmtLists(line) : DoNewLine(1, line, fmts)
    \/ \E i \in 1 .. MaxFmts, v \in SetVals : DoSetAt(1, i, v)
    \/ \E k \in {"k1", "k2"}, v \in SetVals : DoSet(1, k, v)

SpecEncode == Init /\ [][NextEncode]_vars

(***************************************************************************)
(* Claims about NewLine, String, Bytes, Set, SetAt, NewField and Copy.     *)
(***************************************************************************)
\* The line the last call made or changed, and the raw line it was given.
LastLine == held[last.h]
LastFields == Fields(heap, LastLine)

\* The fields fs, in the order of their offsets, cover 0 .. n-1 without a
\* gap and without an overlap.
NoOverlap(fs) == \A i \in 1 .. Len(fs) - 1 : fs[i].index + fs[i].length <= fs[i + 1].index
FullCover(fs, n) ==
    /\ \A i \in 1 .. Len(fs) - 1 : fs[i].index + fs[i].length = fs[i + 1].index
    /\ IF fs = <<>> THEN n = 0 ELSE fs[1].index = 0 /\ fs[Len(fs)].index + fs[Len(fs)].length = n
\* Byte p (1-based) of the line lies in field f.
Covers(f, p) == f.index < p /\ p <= f.index + f.length
\* The slice of field f in the raw line does not start with a space, or is
\* all spaces.
LeftJustified(raw, f) ==
    \/ raw[f.index + 1] # SP
    \/ \A p \in 1 .. Len(raw) : Covers(f, p) => raw[p] = SP

\* C1 as the spec states it: for every raw line and every list of formats
\* that covers it completely, with no gap and no overlap, NewLine followed
\* by String()/Bytes() reproduces the raw line byte for byte, also when a
\* field slice starts with spaces.
C1_RoundTripFull_Original ==
    (last.op = "NewLine" /\ FullCover(LastFields, Len(last.val)))
        => /\ LineString(heap, LastLine) = last.val
           /\ LineBytes(heap, LastLine) = last.val

\* C1 amended: for every raw line and every list of formats that covers it
\* completely, with no gap and no overlap, and of which no field slice
\* starts with a space unless it is all spaces, NewLine followed by
\* String()/Bytes() reproduces the raw line byte for byte.
C1_RoundTripFull ==
    (/\ last.op = "NewLine"
     /\ FullCover(LastFields, Len(last.val))
     /\ \A i \in 1 .. Len(LastFields) : LeftJustified(last.val, LastFields[i]))
        => /\ LineString(heap, LastLine) = last.val
           /\ LineBytes(heap, LastLine) = last.val

\* A line of two fields covering the raw line, one of them padded.
C1_Witness ==
    /\ last.op = "NewLine"
    /\ Len(LastFields) = 2
    /\ FullCover(LastFields, Len(last.val))
    /\ \A i \in 1 .. 2 : LeftJustified(last.val, LastFields[i])
    /\ \E i \in 1 .. 2 : Len(LastFields[i].value) < LastFields[i].length
    /\ \E i \in 1 .. 2 : LastFields[i].value # <<>>

\* The fields do not overlap, cover a part of 0 .. n-1 and leave a byte of
\* it uncovered.
PartialCover(fs, n) ==
    /\ fs # <<>>
    /\ NoOverlap(fs)
    /\ \E p \in 1 .. n : \A i \in 1 .. Len(fs) : ~Covers(fs[i], p)

\* C2 as the spec states it: for every raw line and every list of in-bounds,
\* non-overlapping formats that covers only part of it, NewLine followed by
\* String() yields a string byte-identical to the raw line.
C2_RoundTripPartial_Original ==
    (last.op = "NewLine" /\ PartialCover(LastFields, Len(last.val)))
        => LineString(heap, LastLine) = last.val

\* C2 amended: for such formats String() yields a string as long as the raw
\* line with a space at every byte no format covers; it is byte-identical to
\* the raw line when every byte of the raw line that no format covers is a
\* space and no field slice starts with a space unless it is all spaces.
C2_RoundTripPartial ==
    (last.op = "NewLine" /\ PartialCover(LastFields, Len(last.val)))
        => LET out == LineString(heap, LastLine)
               uncovered == {p \in 1 .. Len(last.val) :
                                \A i \in 1 .. Len(LastFields) : ~Covers(LastFields[i], p)}
           IN  /\ Len(out) = Len(last.val)
               /\ \A p \in uncovered : out[p] = SP
               /\ ((/\ \A p \in uncovered : last.val[p] = SP
                    /\ \A i \in 1 .. Len(LastFields) : LeftJustified(last.val, LastFields[i]))
                      => out = last.val)

\* A raw line with a field and an uncovered byte that holds a space.
C2_Witness ==
    /\ last.op = "NewLine"
    /\ PartialCover(LastFields, Len(last.val))
    /\ Len(LastFields) >= 1
    /\ \E i \in 1 .. Len(LastFields) : LastFields[i].value # <<>>
    /\ LineString(heap, LastLine) = last.val

\* The first Min(len(v), n) bytes of v followed by spaces, n bytes in all.
CutAndPad(v, n) == [p \in 1 .. n |-> IF p <= Len(v) THEN v[p] ELSE SP]

\* C3: for every field of format length L and every value v (empty, shorter
\* than L, exactly L, longer than L), setting the field to v with Line.Set,
\* Line.SetAt or NewField and then encoding the field yields exactly L bytes:
\* the first min(len(v), L) bytes of v followed by spaces.
C3_Truncation ==
    /\ (last.op \in {"Set", "SetAt"} /\ last.err = "")
          => /\ FieldBytes(LastFields[last.i]) = CutAndPad(last.val, LastFields[last.i].length)
             /\ FieldString(LastFields[last.i]) = CutAndPad(last.val, LastFields[last.i].length)
    /\ last.op = "NewField"
          => FieldBytes(last.ret) = CutAndPad(last.val, last.ret.length)

\* SetAt was given a value longer than the field.
C3_Witness ==
    /\ last.op = "SetAt"
    /\ Len(last.val) > LastFields[last.i].length
    /\ LastFields[last.i].length >= 2

\* What the caller can see of the line of handle x.
LineView(x) ==
    IF held[x] = NilLine
    THEN [values |-> <<>>, keyToIndex |-> NilLine.keyToIndex, str |-> <<>>]
    ELSE [values |-> Values(heap, held[x]), keyToIndex |-> held[x].keyToIndex,
          str |-> LineString(heap, held[x])]

MapView(x) == IF mheld[x] = 0 THEN EmptyMap ELSE mheap[mheld[x]]
MapCopyIsEqual == last.op = "MapCopy" => MapView(last.h) = MapView(last.src)

\* C4: line.Copy().String() equals line.String(), and a Set or SetAt on the
\* copy leaves the values, the key index and String() of the original
\* unchanged, and a Set or SetAt on the original leaves the copy unchanged;
\* the copy of a map-backed line has the entries of the line, and a Set,
\* Insert or Delete on either leaves the other unchanged.
CopyIsEqual == last.op = "Copy" => LineView(last.h) = LineView(last.src)
C4_Copy ==
    [][/\ CopyIsEqual'
       /\ MapCopyIsEqual'
       /\ \A x \in Handles :
            /\ (last'.op \in {"Set", "SetAt"} /\ last'.h # x) => LineView(x)' = LineView(x)
            /\ (last'.op \in {"MapSet", "MapInsert", "MapDelete"} /\ last'.h # x)
                  => MapView(x)' = MapView(x)]_vars

\* The copy was set to a value the original does not have.
C4_Witness ==
    /\ last.op \in {"Set", "SetAt"}
    /\ last.err = ""
    /\ last.h = 2
    /\ held[1] # NilLine
    /\ Values(heap, held[1]) # Values(heap, held[2])

(***************************************************************************)
(* Claims about Insert.                                                    *)
(***************************************************************************)
\* C7: Insert with a key that exists (Line.Insert, LineFmt.Insert) returns
\* the already-exists error and leaves the entry of that key and every other
\* entry as they were; Insert with a key that is absent returns no error and
\* adds that entry and changes no other.
C7_InsertExisting ==
    /\ last.op = "MapInsert" =>
          IF last.pre[last.key] # None
          THEN last.err = "errFieldExists" /\ MapView(last.h) = last.pre
          ELSE /\ last.err = ""
               /\ MapView(last.h)[last.key] = last.val
               /\ \A k \in MapKeys \ {last.key} : MapView(last.h)[k] = last.pre[k]
    /\ last.op = "FmtInsert" =>
          IF last.pre[last.key] # NoFmt
          THEN last.err = "errFieldExists" /\ lf = last.pre
          ELSE /\ last.err = ""
               /\ lf[last.key] = NewFieldFmt(last.i, last.n)
               /\ \A k \in MapKeys \ {last.key} : lf[k] = last.pre[k]

\* Insert was refused for a key that holds another value than the one given,
\* in a line that has a second entry.
C7_Witness ==
    /\ last.op = "MapInsert"
    /\ last.err = "errFieldExists"
    /\ MapView(last.h)[last.key] # last.val
    /\ \A k \in MapKeys : MapView(last.h)[k] # None

(***************************************************************************)
(* Claims about the calls that append one raw line to a flat file.         *)
(***************************************************************************)
AppendOps == {"AppendStr", "AppendBts", "Write", "WriteString"}
Rejected(raw) == Formatter(formats, raw).nil
AllInBounds(raw) ==
    \A i \in 1 .. Len(Formatter(formats, raw).fmts) :
        FmtInBounds(raw, Formatter(formats, raw).fmts[i])

\* The line at position i of the flat file is the line NewLine makes of raw
\* with the formats the formatter returns for raw (which are in the order of
\* their offsets).
IsLineOf(i, raw) ==
    LET fmts == Formatter(formats, raw).fmts
        v == LineViewOf(heap, lines[i])
    IN  /\ v.length = Len(raw)
        /\ v.formats = fmts
        /\ v.values = [j \in 1 .. Len(fmts) |->
                          Trim(SubSeq(raw, fmts[j].index + 1, fmts[j].index + fmts[j].length),
                               {SP})]

\* The first Len(last.pre) lines of the flat file are what they were when the
\* last call was made.
OldLinesKept ==
    /\ Len(lines) >= Len(last.pre)
    /\ \A i \in 1 .. Len(last.pre) : LineViewOf(heap, lines[i]) = last.pre[i]

\* The last call appended the line of raw and nothing else.
AppendedLast(raw) ==
    /\ last.err = ""
    /\ Len(lines) = Len(last.pre) + 1
    /\ OldLinesKept
    /\ IsLineOf(Len(lines), raw)

RejectedUnchanged == last.err = "ParsingError" /\ FileView(heap, lines) = last.pre

SetFieldTooLong ==
    /\ last.op = "SetField"
    /\ last.i <= Len(last.pre)
    /\ LineFmtContains(lineFmt, last.key)
    /\ lineFmt[last.key].length < Len(last.val)

\* SetValue was called on a line and a key the line has, with a value longer
\* than the field.
SetValueTooLong ==
    /\ last.op = "SetValue"
    /\ last.i <= Len(last.pre)
    /\ last.pre[last.i].keyToIndex[last.key] # 0
    /\ last.pre[last.i].formats[last.pre[last.i].keyToIndex[last.key]].length < Len(last.val)

SetFieldRefused == last.err = "errFieldLengthRestriction" /\ mlines = last.pre

\* C6 as stated: SetField and SetValue with a value longer than the field
\* fail with an error and the line is as it was.
C6_SetTooLong_Original ==
    /\ SetFieldTooLong => SetFieldRefused
    /\ SetValueTooLong => (last.err # "" /\ FileView(heap, lines) = last.pre)

\* C6: SetField of the map-backed flat file with a value longer than the
\* field fails with the length restriction error and the lines are as they
\* were; SetValue of the formatter-backed flat file with such a value returns
\* no error and stores the first length bytes of the value in the field,
\* and changes no other field and no other line.
C6_SetTooLong ==
    /\ SetFieldTooLong => SetFieldRefused
    /\ SetValueTooLong =>
          LET j == last.pre[last.i].keyToIndex[last.key]
              n == last.pre[last.i].formats[j].length
              v == FileView(heap, lines)
          IN  /\ last.err = ""
              /\ Len(v) = Len(last.pre)
              /\ \A i \in 1 .. Len(v) : i # last.i => v[i] = last.pre[i]
              /\ v[last.i].values =
                    [last.pre[last.i].values EXCEPT ![j] = SubSeq(last.val, 1, n)]
              /\ v[last.i].formats = last.pre[last.i].formats
              /\ v[last.i].keyToIndex = last.pre[last.i].keyToIndex
              /\ v[last.i].length = last.pre[last.i].length

\* SetValue cut a value that was too long, and the line reads differently.
C6_Witness ==
    /\ SetValueTooLong
    /\ last.err = ""
    /\ LineString(heap, lines[last.i]) # last.pre[last.i].string

(***************************************************************************)
(* Claims about ReadFrom.                                                  *)
(***************************************************************************)
NonEmpty(bts) == SelectSeq(bts, LAMBDA b : b # <<>>)

\* The fragments of the stream between line feeds without their leading and
\* trailing carriage returns, the empty ones left out: the lines ReadFrom
\* hands to Write.
TrimmedFrags(stream) ==
    NonEmpty([i \in 1 .. Len(Split(stream, LF)) |-> Trim(Split(stream, LF)[i], {CR})])

\* The fragments of the stream between line feeds, each without one trailing
\* carriage return if it has one, the empty ones left out.
StripOneCR(b) == IF b # <<>> /\ b[Len(b)] = CR THEN SubSeq(b, 1, Len(b) - 1) ELSE b
StrippedFrags(stream) ==
    NonEmpty([i \in 1 .. Len(Split(stream, LF)) |-> StripOneCR(Split(stream, LF)[i])])

\* The position of the first line the formatter rejects, 0 when it rejects none.
FirstRejected(frags) ==
    IF \E i \in 1 .. Len(frags) : Rejected(frags[i])
    THEN CHOOSE i \in 1 .. Len(frags) :
            Rejected(frags[i]) /\ \A j \in 1 .. i - 1 : ~Rejected(frags[j])
    ELSE 0

\* ReadFrom was called with a reader that delivered the whole stream last.val.
ReadWhole == last.op = "ReadFrom" /\ last.err # "read"

\* The lines frags[1 .. n] were appended after the lines the file had, in order.
AppendedInOrder(frags, n) ==
    /\ Len(lines) = Len(last.pre) + n
    /\ OldLinesKept
    /\ \A i \in 1 .. n : IsLineOf(Len(last.pre) + i, frags[i])

\* ReadFrom returned the error of the first rejected line, with the lines
\* before it appended.
StoppedAtFirstRejected(frags) ==
    /\ last.err = "ParsingError"
    /\ last.line = frags[FirstRejected(frags)]
    /\ AppendedInOrder(frags, FirstRejected(frags) - 1)

RawFrags(stream) == NonEmpty(Split(stream, LF))

\* The formatter accepts every line of frags, with formats within the line.
AllAccepted(frags) == \A i \in 1 .. Len(frags) : ~Rejected(frags[i]) /\ AllInBounds(frags[i])

\* Every field of the line format lies within every line of frags.
AllFit(frags) ==
    \A i \in 1 .. Len(frags), k \in MapKeys :
        LineFmtContains(lineFmt, k) => lineFmt[k].index + lineFmt[k].length <= Len(frags[i])

\* The map-backed ReadFrom appended the lines frags after the lines the file
\* had, in order.
MapAppendedInOrder(frags) ==
    /\ last.err = ""
    /\ Len(mlines) = Len(last.pre) + Len(frags)
    /\ \A i \in 1 .. Len(last.pre) : mlines[i] = last.pre[i]
    /\ \A i \in 1 .. Len(frags), k \in MapKeys :
          mlines[Len(last.pre) + i][k] =
              IF LineFmtContains(lineFmt, k)
              THEN Trim(SubSeq(frags[i], lineFmt[k].index + 1,
                               lineFmt[k].index + lineFmt[k].length), {SP})
              ELSE None

MapReadWhole == last.op = "MapReadFrom" /\ last.err \notin {"errLineFmtNotInit", "read"}

\* C9 as stated: for a stream of which every line is accepted (with formats
\* within the line), the lines being the fragments between line feeds
\* without one trailing carriage return, the empty ones left out, ReadFrom
\* returns no error and appends exactly these lines, in order, after the
\* lines the file had.
C9_ReadSplits_Original ==
    /\ (ReadWhole /\ AllAccepted(StrippedFrags(last.val)))
          => (last.err = "" /\ AppendedInOrder(StrippedFrags(last.val),
                                               Len(StrippedFrags(last.val))))
    /\ (MapReadWhole /\ AllFit(StrippedFrags(last.val)))
          => MapAppendedInOrder(StrippedFrags(last.val))

\* C9: the lines of a stream are the fragments between line feeds, for the
\* formatter-backed flat file without all their leading and trailing
\* carriage returns, for the map-backed flat file as they are, the empty
\* ones left out; when every line is accepted (with formats, or fields,
\* within the line) ReadFrom returns no error and appends exactly these
\* lines, in order, after the lines the file had.
C9_ReadSplits ==
    /\ (ReadWhole /\ AllAccepted(TrimmedFrags(last.val)))
          => (last.err = "" /\ AppendedInOrder(TrimmedFrags(last.val),
                                               Len(TrimmedFrags(last.val))))
    /\ (MapReadWhole /\ AllFit(RawFrags(last.val)))
          => MapAppendedInOrder(RawFrags(last.val))

\* ReadFrom appended, after a line the file had, the line of a fragment that
\* has a leading carriage return or more than one trailing carriage return.
C9_Witness ==
    /\ ReadWhole
    /\ last.err = ""
    /\ Len(last.pre) >= 1
    /\ Len(lines) > Len(last.pre)
    /\ TrimmedFrags(last.val) # StrippedFrags(last.val)

\* What ReadFrom adds to the byte length of the file for the lines frags.
RECURSIVE SumLen(_, _)
SumLen(frags, i) == IF i > Len(frags) THEN 0 ELSE Len(frags[i]) + SumLen(frags, i + 1)
LineEndLen == IF goos = "windows" THEN 2 ELSE 1
AppendedFrags(frags) ==
    IF FirstRejected(frags) = 0 THEN frags ELSE SubSeq(frags, 1, FirstRejected(frags) - 1)

\* ReadFrom returned to its caller after it read the whole stream.
ReadReturned ==
    \/ ReadWhole /\ last.err # "panic"
    \/ last.op = "MapReadFrom" /\ last.err = ""

\* C10 as stated: the count ReadFrom returns is the length of the stream.
C10_ReadCount_Original == ReadReturned => last.n = Len(last.val)

\* C10: the count ReadFrom of the formatter-backed flat file returns is what
\* the call added to ByteLen(): for every line it appended the length of the
\* line and the length of a line ending (2 on Windows, else 1); the count
\* ReadFrom of the map-backed flat file returns is the length of the stream;
\* with a reader that fails, and without a line format, the count is 0.
C10_ReadCount ==
    /\ (ReadWhole /\ last.err # "panic") =>
          last.n = SumLen(AppendedFrags(TrimmedFrags(last.val)), 1)
                     + LineEndLen * Len(AppendedFrags(TrimmedFrags(last.val)))
    /\ (last.op = "MapReadFrom" /\ last.err = "") => last.n = Len(last.val)
    /\ (last.op \in {"ReadFrom", "MapReadFrom"} /\ last.err \in {"read", "errLineFmtNotInit"})
          => last.n = 0

\* ReadFrom appended the lines of a stream with a CRLF ending and returned a
\* count that is not the length of the stream.
C10_Witness ==
    /\ ReadWhole
    /\ last.err = ""
    /\ Len(lines) > Len(last.pre)
    /\ \E i \in 1 .. Len(last.val) - 1 : last.val[i] = CR /\ last.val[i + 1] = LF
    /\ last.n # Len(last.val)

(***************************************************************************)
(* C11: writing the whole flat file out.                                   *)
(***************************************************************************)
RECURSIVE JoinWith(_, _)
JoinWith(strs, sep) ==
    IF strs = <<>> THEN <<>>
    ELSE IF Len(strs) = 1 THEN strs[1]
    ELSE strs[1] \o sep \o JoinWith(Tail(strs), sep)

RECURSIVE EndEachWith(_, _)
EndEachWith(strs, ending) ==
    IF strs = <<>> THEN <<>> ELSE strs[1] \o ending \o EndEachWith(Tail(strs), ending)

\* The encodings of the lines the flat file held when the call was made.
Encodings == [i \in 1 .. Len(last.pre) |-> last.pre[i].string]
MapEncodings ==
    {e \in [1 .. Len(last.pre) -> UNION {MapBytesAt(lineFmt, last.pre[i]) : i \in 1 .. Len(last.pre)}] :
        \A i \in 1 .. Len(last.pre) : e[i] \in MapBytesAt(lineFmt, last.pre[i])}

FileOutOps == {"Bytes", "String"}
MapOutOps == {"MapBytes", "MapString", "MapWriteTo"}
WroteOut == last.op \in FileOutOps \cup MapOutOps /\ last.err = ""

\* C11 as the spec states it: WriteTo / String / Bytes emit the encodings of
\* the lines in file order joined by a single line feed, with no terminator
\* after the last line, and nothing for an empty file.
C11_WholeFile_Original ==
    /\ (WroteOut /\ last.op \in FileOutOps) => last.val = JoinWith(Encodings, <<LF>>)
    /\ (WroteOut /\ last.op \in MapOutOps) =>
          \E e \in MapEncodings : last.val = JoinWith(e, <<LF>>)

\* C11: String and Bytes of the formatter-backed flat file emit the encodings
\* of the lines in file order, each one, the last included, followed by a
\* line ending: a line feed, and for Bytes on Windows a carriage return and a
\* line feed.  String, Bytes and WriteTo of the map-backed flat file emit the
\* encodings joined by a single line feed with no terminator after the last
\* line, and WriteTo returns the number of bytes written.  All of them emit
\* nothing for an empty file and leave the lines as they are.
C11_WholeFile ==
    /\ (WroteOut /\ last.op = "String") => last.val = EndEachWith(Encodings, <<LF>>)
    /\ (WroteOut /\ last.op = "Bytes") =>
          last.val = EndEachWith(Encodings, IF goos = "windows" THEN <<CR, LF>> ELSE <<LF>>)
    /\ (WroteOut /\ last.op \in MapOutOps) =>
          \E e \in MapEncodings : last.val = JoinWith(e, <<LF>>)
    /\ (WroteOut /\ last.op = "MapWriteTo") => last.n = Len(last.val)
    /\ (WroteOut /\ last.pre = <<>>) => last.val = <<>>
    /\ (WroteOut /\ last.op \in FileOutOps) => FileView(heap, lines) = last.pre
    /\ (WroteOut /\ last.op \in MapOutOps) => mlines = last.pre

\* Bytes on Windows of a flat file of two lines has been called.
C11_Witness ==
    /\ WroteOut
    /\ last.op = "Bytes"
    /\ goos = "windows"
    /\ Len(last.pre) = 2
    /\ last.pre[1].string # last.pre[2].string

(***************************************************************************)
(* C12: reading a file and writing it out again.                           *)
(***************************************************************************)
\* equalFiles of TestFlatFile: both contents are split on line feeds, the
\* numbers of fragments are equal and so are the fragments, position by
\* position, once their leading and trailing carriage returns are trimmed.
EqualFiles(b0, b1) ==
    LET bts0 == Split(b0, LF)
        bts1 == Split(b1, LF)
    IN  /\ Len(bts0) = Len(bts1)
        /\ \A i \in 1 .. Len(bts0) : Trim(bts0[i], {CR}) = Trim(bts1[i], {CR})

\* ReadFrom read the stream last.val into a flat file without lines (as
\* after Clear) and the formatter accepted every line that is not empty.
ReadIntoEmpty == ReadWhole /\ last.pre = <<>> /\ last.err = ""

\* Every fragment of the stream but the last is a line, and the last one is
\* not: the stream ends with a line ending and has no blank line.
EveryLineEnded(stream) ==
    LET bts == Split(stream, LF)
    IN  \A i \in 1 .. Len(bts) : (Trim(bts[i], {CR}) = <<>>) <=> (i = Len(bts))

\* The formats of the line cover it completely and no field starts with a
\* space unless it is all spaces.
PaddedRight(raw) ==
    LET fmts == Formatter(formats, raw).fmts
    IN  /\ \A p \in 1 .. Len(raw) : \E j \in 1 .. Len(fmts) : Covers(fmts[j], p)
        /\ \A j \in 1 .. Len(fmts) : LeftJustified(raw, fmts[j])

Equivalent(v, w) == ~LineLess(last.key, v, w) /\ ~LineLess(last.key, w, v)

\* post[k] is the line pre[p[k]], for every position k.
Reorders(p, pre, post) == Len(post) = Len(pre) /\ \A k \in 1 .. Len(pre) : post[k] = pre[p[k]]

\* No line of post is less than a line before it.
InOrder(post) ==
    \A a, b \in 1 .. Len(post) : a < b => ~LineLess(last.key, post[b], post[a])

SortThenSwap(lns, q, id) ==
    {SwapLines(sorted, 1, 2) : sorted \in SortLines([k \in 1 .. Len(lns) |-> lns[q[k]]], id)}

SortedThree == last.op = "Sort" /\ last.key = "longerFirst" /\ Len(last.pre) = 3

RemoveOps == {"Remove", "MapRemove"}
RemovedInvalid == last.op \in RemoveOps /\ last.i \notin 1 .. Len(last.pre)
RemovedValid == last.op \in RemoveOps /\ last.i \in 1 .. Len(last.pre)

\* What the caller sees of the flat file the call was made on, and of the
\* line Remove returned.
LinesNow == IF last.op = "MapRemove" THEN mlines ELSE FileView(heap, lines)
Returned == IF last.op = "MapRemove" THEN MapView(1) ELSE LineViewOf(heap, held[1])

\* C15 as the spec states it: Remove(i) with i not a position of the flat
\* file returns an index-out-of-range error to the caller and leaves the
\* lines unchanged.
C15_RemoveInvalid_Original ==
    RemovedInvalid => (last.err = "IndexOutOfRange" /\ LinesNow = last.pre)

\* C16: Remove(i) with i a position of the flat file returns the line that
\* was at i, Len() is one less, the lines before i keep their position and
\* the lines after i move down by one, with their contents unchanged.
C16_RemoveValid ==
    RemovedValid =>
        /\ last.err = ""
        /\ Returned = last.pre[last.i]
        /\ Len(LinesNow) = Len(last.pre) - 1
        /\ \A k \in 1 .. Len(LinesNow) :
              LinesNow[k] = IF k < last.i THEN last.pre[k] ELSE last.pre[k + 1]

\* The first of three different lines was removed.
C16_Witness ==
    /\ RemovedValid
    /\ last.op = "Remove"
    /\ last.i = 1
    /\ Len(last.pre) = 3
    /\ \A a, b \in 1 .. 3 : a # b => last.pre[a] # last.pre[b]

(***************************************************************************)
(* C17: lookups and updates by key.                                        *)
(***************************************************************************)
LookupOps == {"Field", "Value", "Index", "Length"}

\* The step is a lookup by key on a line the caller holds: a key of the line
\* gives what its field holds and no error, any other key the zero value and
\* a missing-key error; the line is left as it was.
LookupStep ==
    last'.op \in LookupOps =>
        LET ln == held[last'.h]
            at == ln.keyToIndex[last'.key]
        IN  /\ UNCHANGED <<heap, held>>
            /\ IF at = 0
               THEN /\ last'.err = "MissingKeyError"
                    /\ last'.ret = NewField("", <<>>, 0, 0)
                    /\ last'.val = <<>> /\ last'.i = 0 /\ last'.n = 0
               ELSE /\ last'.err = ""
                    /\ last'.op = "Field" => last'.ret = Fields(heap, ln)[at]
                    /\ last'.op = "Value" => last'.val = Fields(heap, ln)[at].value
                    /\ last'.op = "Index" => last'.i = Fields(heap, ln)[at].index
                    /\ last'.op = "Length" => last'.n = Fields(heap, ln)[at].length

\* The step is ln.Set(key, value): no error for a key of the line; for any
\* other key an error, and every field of every line is as it was.
SetStep ==
    last'.op = "Set" =>
        IF held[last'.h].keyToIndex[last'.key] = 0
        THEN last'.err # "" /\ UNCHANGED <<heap, held>>
        ELSE last'.err = ""

\* The step is ff.SetValue(i, key, value) on a line of the flat file: the
\* key is looked up among the keys of that line, whatever the other lines hold.
SetValueStep ==
    last'.op = "SetValue" /\ last'.i <= Len(lines) =>
        IF lines[last'.i].keyToIndex[last'.key] = 0
        THEN last'.err = "MissingKeyError" /\ UNCHANGED <<heap, lines>>
        ELSE last'.err = ""

\* The step is Get or Delete on a map-backed line that has not the key.
MapGetDeleteStep ==
    /\ last'.op \in {"MapGet", "MapDelete"}
    /\ ~MapLineContains(mheap[mheld[last'.h]], last'.key)
    => /\ last'.err = "errFieldNotExist"
       /\ last'.op = "MapGet" => last'.val = <<>>
       /\ UNCHANGED <<mheap, mheld>>

MapSetAbsent ==
    last'.op = "MapSet" /\ ~MapLineContains(mheap[mheld[last'.h]], last'.key)

\* C17 as stated: Value, Field, Index, Length, Get and Delete on a key that
\* the line has not return a key-not-found error (with the empty value);
\* Set and SetValue on such a key return a key-not-found error and leave
\* every field unchanged, also Set on a map-backed line; Set on a key of the
\* line does not fail; the keys are those of the line itself.
C17_KeyLookup_Original ==
    [][/\ LookupStep /\ SetStep /\ SetValueStep /\ MapGetDeleteStep
       /\ MapSetAbsent => last'.err # "" /\ UNCHANGED <<mheap, mheld>>]_vars

\* C17, amended: as above for Value, Field, Index, Length, Set and SetValue
\* of the formatter-backed line and for Get and Delete of the map-backed
\* line, but Set on a map-backed line that has not the key adds the key
\* with the contents given and returns nothing.
C17_KeyLookup ==
    [][/\ LookupStep /\ SetStep /\ SetValueStep /\ MapGetDeleteStep
       /\ MapSetAbsent =>
              /\ last'.err = ""
              /\ mheap' = [mheap EXCEPT ![mheld[last'.h]][last'.key] = last'.val]
       /\ last'.op = "MapSet" => last'.err = ""]_vars

\* SetValue was refused on a line for a key that another line of the flat
\* file has.
C17_Witness ==
    /\ last.op = "SetValue"
    /\ last.err = "MissingKeyError"
    /\ last.i <= Len(lines)
    /\ lines[last.i].keyToIndex[last.key] = 0
    /\ \E j \in 1 .. Len(lines) : lines[j].keyToIndex[last.key] # 0

(***************************************************************************)
(* C18: a format that ends past the end of the raw line.                   *)
(***************************************************************************)
\* AppendStr was called with a line for which the formatter returns a format
\* that ends past the end of the line.
AppendedShortLine ==
    /\ last.op = "AppendStr"
    /\ \E i \in 1 .. Len(Formatter(formats, last.val).fmts) :
          ~FmtInBounds(last.val, Formatter(formats, last.val).fmts[i])

\* C18 as stated: a line parsed with a format whose offset + length exceeds
\* the length of the line fails with an out-of-range error that is returned
\* to the caller (no call ends in a panic), and the lines the flat file held
\* are unchanged.
C18_OutOfRange_Original ==
    /\ AppendedShortLine => last.err = "OutOfRange" /\ FileView(heap, lines) = last.pre
    /\ last.op \in {"AppendStr", "ReadFrom", "MapReadFrom"} => last.err # "panic"

(***************************************************************************)
(* C19: the length of a format.                                            *)
(***************************************************************************)
MadeFormat == last.op \in {"NewFormat", "NewFieldFmt"}

\* The formats of the lines the caller and the flat file hold.
HeldFormats ==
    UNION ({{Formats(heap, held[x])[i] : i \in 1 .. Len(Fields(heap, held[x]))} :
               x \in {y \in Handles : held[y] # NilLine}}
           \cup {{Formats(heap, lines[j])[i] : i \in 1 .. Len(Fields(heap, lines[j]))} :
                    j \in 1 .. Len(lines)})

Stripped(s) ==
    LET at == {i \in 1 .. Len(s) : s[i] # SP}
    IN  IF at = {} THEN <<>>
        ELSE SubSeq(s, CHOOSE i \in at : \A j \in at : i <= j,
                       CHOOSE i \in at : \A j \in at : j <= i)

\* Under every key of the line ln is the field of that key, and its value is
\* the stripped slice of raw at the field's index and length.
ParsedFrom(hp, ln, raw) ==
    \A k \in Keys :
        ln.keyToIndex[k] # 0 =>
            LET f == Fields(hp, ln)[ln.keyToIndex[k]]
            IN  /\ f.key = k
                /\ f.value = Stripped(SubSeq(raw, f.index + 1, f.index + f.length))

\* The line has a field for every format the formatter returns for raw.
HasFormatsOf(hp, ln, raw) ==
    /\ {Formats(hp, ln)[i] : i \in 1 .. Len(Fields(hp, ln))} =
          {Formatter(formats, raw).fmts[i] : i \in 1 .. Len(Formatter(formats, raw).fmts)}
    /\ ln.length = Len(raw)

\* The lines of a stream without carriage returns: what is between the line
\* feeds, but for the empty lines.
StreamLines(stream) == SelectSeq(Split(stream, LF), LAMBDA b : b # <<>>)

\* C20: after NewLine, AppendStr and ReadFrom, and after AppendBts on the
\* map-backed flat file, with formats in the bounds of the raw line, the
\* value under each key is raw[offset : offset + length] without its leading
\* and trailing spaces, the spaces inside kept; a slice of spaces only gives
\* the empty value.
C20_ParseValues ==
    /\ last.op = "NewLine" /\ last.err = "" =>
          /\ ParsedFrom(heap, held[last.h], last.val)
          /\ held[last.h].length = Len(last.val)
    /\ last.op = "AppendStr" /\ last.err = "" =>
          /\ Len(lines) = Len(last.pre) + 1
          /\ ParsedFrom(heap, lines[Len(lines)], last.val)
          /\ HasFormatsOf(heap, lines[Len(lines)], last.val)
    /\ last.op = "ReadFrom" /\ last.err = "" /\ (\A i \in 1 .. Len(last.val) : last.val[i] # CR) =>
          /\ Len(lines) = Len(last.pre) + Len(StreamLines(last.val))
          /\ \A i \in 1 .. Len(StreamLines(last.val)) :
                /\ ParsedFrom(heap, lines[Len(last.pre) + i], StreamLines(last.val)[i])
                /\ HasFormatsOf(heap, lines[Len(last.pre) + i], StreamLines(last.val)[i])
    /\ /\ last.op = "MapAppendBts" /\ last.err = ""
       /\ \A k \in MapKeys : LineFmtContains(lineFmt, k) =>
                                  lineFmt[k].index + lineFmt[k].length <= Len(last.val)
       => /\ Len(mlines) = Len(last.pre) + 1
          /\ \A k \in MapKeys :
                mlines[Len(mlines)][k] =
                    IF LineFmtContains(lineFmt, k)
                    THEN Stripped(SubSeq(last.val, lineFmt[k].index + 1,
                                         lineFmt[k].index + lineFmt[k].length))
                    ELSE None

\* The flat file holds the line of "a a", whose value keeps the space inside,
\* and AppendStr has just appended the line of " a ", whose value is "a".
C20_Witness ==
    /\ last.op = "AppendStr"
    /\ last.err = ""
    /\ last.val = <<SP, "a", SP>>
    /\ Len(lines) = 2
    /\ Values(heap, lines[1]) = << <<"a", SP, "a">> >>
    /\ Values(heap, lines[2]) = << <<"a">> >>

(***************************************************************************)
(* C21: the key index and the order of the fields of a line.               *)
(***************************************************************************)
\* Every key of the key index of ln is at a position of the fields, the
\* field there has that key, and the fields are in the order of their
\* offsets.
IndexConsistent(hp, ln) ==
    LET fs == Fields(hp, ln)
    IN  /\ \A k \in Keys :
              ln.keyToIndex[k] # 0 =>
                  /\ ln.keyToIndex[k] \in 1 .. Len(fs)
                  /\ fs[ln.keyToIndex[k]].key = k
        /\ \A i \in 1 .. Len(fs) - 1 : fs[i].index <= fs[i + 1].index

\* C21: after NewLine with the formats in any order, and after any sequence
\* of Set, SetAt and Copy, every key of the key index is the key of the field
\* at the position the index gives, every such position is a position of the
\* fields, and the fields are ordered by non-decreasing offset.
C21_LineIndex ==
    \A x \in Handles : held[x] # NilLine => IndexConsistent(heap, held[x])

\* A value was set in the copy of a line of two fields whose formats were
\* given with the greater offset first.
C21_Witness ==
    /\ last.op \in {"Set", "SetAt"}
    /\ last.err = ""
    /\ last.h = 2
    /\ Len(Fields(heap, held[2])) = 2
    /\ held[2].keyToIndex["k1"] = 2
    /\ held[2].keyToIndex["k2"] = 1

(***************************************************************************)
(* C22: the keys of the fields of a line.                                  *)
(***************************************************************************)
MadeLine == last.op = "NewLine" /\ last.err = ""
IndexedKeys(ln) == {k \in Keys : ln.keyToIndex[k] # 0}
DistinctKeys(fs) == \A i, j \in 1 .. Len(fs) : i # j => fs[i].key # fs[j].key

\* C22 as stated: in every line NewLine builds, also from formats two of
\* which have the same key, no two fields have the same key, the number of
\* fields is the number of keys of the key index.
C22_KeyUnique_Original ==
    MadeLine => /\ DistinctKeys(LastFields)
                /\ Len(LastFields) = Cardinality(IndexedKeys(LastLine))

\* C22, amended: NewLine builds one field for every format it is given; the
\* keys of the key index are the keys of the fields, and the entry of a key
\* is the position of the last field with that key.  So no two fields have
\* the same key, and the number of fields is the number of keys, exactly
\* when no two of the formats have the same key.
C22_KeyUnique ==
    MadeLine =>
        /\ Len(LastFields) = last.n
        /\ IndexedKeys(LastLine) = {LastFields[i].key : i \in 1 .. Len(LastFields)}
        /\ \A i \in 1 .. Len(LastFields) :
              LastLine.keyToIndex[LastFields[i].key] >= i
        /\ DistinctKeys(LastFields) <=> Len(LastFields) = Cardinality(IndexedKeys(LastLine))

\* NewLine was given two formats with the same key and different offsets:
\* the line has both fields.
C22_Witness ==
    /\ MadeLine
    /\ Len(LastFields) = 2
    /\ LastFields[1].key = LastFields[2].key
    /\ LastFields[1].index < LastFields[2].index
    /\ LastFields[1].value # LastFields[2].value

(***************************************************************************)
(* C23: the length of the value of a field.                                *)
(***************************************************************************)
FitsFormat(f) == Len(f.value) <= f.length

\* C23: in every reachable state, after any sequence of NewLine, AppendStr,
\* ReadFrom, Set, SetAt, SetValue, SetValueAt, SetStr and Copy, the value of
\* every field of every line, of the caller's and of the flat file's, is no
\* longer than the length of the field's format.
C23_FieldLength ==
    /\ \A x \in Handles :
          held[x] # NilLine =>
              \A i \in 1 .. Len(Fields(heap, held[x])) : FitsFormat(Fields(heap, held[x])[i])
    /\ \A j \in 1 .. Len(lines) :
          \A i \in 1 .. Len(Fields(heap, lines[j])) : FitsFormat(Fields(heap, lines[j])[i])

\* SetValueAt has stored a value that was longer than the field in the second
\* line of the flat file.
C23_Witness ==
    /\ last.op = "SetValueAt"
    /\ last.err = ""
    /\ last.i = 2
    /\ Len(last.val) > Fields(heap, lines[2])[last.n].length
    /\ Fields(heap, lines[2])[last.n].value # <<>>

(***************************************************************************)
(* C26: Set of a whole line of the map-backed flat file.                   *)
(***************************************************************************)
\* Set was called on a line of the flat file.
MapFileSetCalled == last.op = "MapFileSet" /\ last.i \in 1 .. Len(last.pre)

\* The error SetField returns for the field k of the line handed to Set,
\* "" when it accepts the field.
FieldError(k) ==
    IF ~LineFmtContains(lineFmt, k) THEN "errFieldNotExist"
    ELSE IF lineFmt[k].length < Len(last.line[k]) THEN "errFieldLengthRestriction"
    ELSE ""
FailingKeys == {k \in MapKeys : MapLineContains(last.line, k) /\ FieldError(k) # ""}

\* C26: Set(i, ln) of the map-backed flat file is all-or-nothing.  When a
\* key of ln is not in the line format or a value is longer than its format,
\* Set returns the error of such a key and every line, line i too, holds
\* what it held before the call; when no key fails, line i holds every field
\* of ln, its other fields and the other lines are as before.
C26_SetAllOrNothing ==
    MapFileSetCalled =>
        IF FailingKeys # {}
        THEN /\ last.err \in {FieldError(k) : k \in FailingKeys}
             /\ mlines = last.pre
        ELSE /\ last.err = ""
             /\ Len(mlines) = Len(last.pre)
             /\ \A j \in 1 .. Len(mlines) : j # last.i => mlines[j] = last.pre[j]
             /\ \A k \in MapKeys :
                   mlines[last.i][k] = IF MapLineContains(last.line, k) THEN last.line[k]
                                       ELSE last.pre[last.i][k]

\* Set was refused for one field of a line of two fields, the other of which
\* it accepts and would have changed.
C26_Witness ==
    /\ MapFileSetCalled
    /\ last.err # ""
    /\ \E k \in MapKeys :
          /\ MapLineContains(last.line, k)
          /\ FieldError(k) = ""
          /\ last.line[k] # last.pre[last.i][k]
    /\ mlines[last.i] = last.pre[last.i]

(***************************************************************************)
(* C30: SetStr.                                                            *)
(***************************************************************************)
\* SetStr was called on a line of the flat file.
SetStrCalled == last.op = "SetStr" /\ last.i \in 1 .. Len(last.pre)

\* The lines other than line i are what they were before the call, and
\* there are as many lines.
OthersKept ==
    /\ Len(lines) = Len(last.pre)
    /\ \A j \in 1 .. Len(lines) : j # last.i => LineViewOf(heap, lines[j]) = last.pre[j]

\* C30 as stated: SetStr(i, raw) replaces line i by the parse of raw when the
\* formatter accepts raw, and the other lines and Len() are unchanged; when
\* the formatter rejects raw, it returns a parsing error and line i, the
\* other lines and Len() are unchanged.
C30_SetStr_Original ==
    SetStrCalled =>
        IF Formatter(formats, last.val).nil
        THEN last.err = "ParsingError" /\ FileView(heap, lines) = last.pre
        ELSE /\ last.err = ""
             /\ OthersKept
             /\ ParsedFrom(heap, lines[last.i], last.val)
             /\ HasFormatsOf(heap, lines[last.i], last.val)

(***************************************************************************)
(* C24: Swap.                                                              *)
(***************************************************************************)
\* Swap was called with two positions of the flat file (its second position
\* is kept in n).
Swapped == last.op = "Swap" /\ last.err = ""

\* C24: Swap(i, j) with i and j positions of the flat file exchanges the
\* lines at i and j and nothing else: there are as many lines, the line at
\* every other position is the one that was there, the two lines are those
\* that were at j and at i, Swap(i, i) changes nothing, and a second
\* Swap(i, j) gives back the lines as they were.
C24_Swap ==
    Swapped =>
        /\ Len(mlines) = Len(last.pre)
        /\ mlines[last.i] = last.pre[last.n]
        /\ mlines[last.n] = last.pre[last.i]
        /\ \A k \in 1 .. Len(mlines) : k \notin {last.i, last.n} => mlines[k] = last.pre[k]
        /\ last.i = last.n => mlines = last.pre
        /\ SwapLines(mlines, last.i, last.n) = last.pre

\* The first and the last of three different lines were exchanged.
C24_Witness ==
    /\ Swapped
    /\ Len(mlines) = 3
    /\ {last.i, last.n} = {1, 3}
    /\ \A a, b \in 1 .. 3 : a # b => mlines[a] # mlines[b]

(***************************************************************************)
(* C25: Sort reorders the lines and leaves them in order.                  *)
(***************************************************************************)
\* How often the line v is among the lines lns.
CountOf(v, lns) == Cardinality({k \in 1 .. Len(lns) : lns[k] = v})

\* C25: after Sort(less) the flat file has as many lines as before, every
\* line as often as before, and for every two positions p < q the line at q
\* is not less than the line at p.
C25_SortOrders ==
    last.op = "Sort" =>
        LET post == FileView(heap, lines)
        IN  /\ Len(post) = Len(last.pre)
            /\ \A k \in 1 .. Len(last.pre) :
                  CountOf(last.pre[k], post) = CountOf(last.pre[k], last.pre)
            /\ \A p, q \in 1 .. Len(post) :
                  p < q => ~LineLess(last.key, post[q], post[p])

\* Sort was called on three lines of three lengths that were in the converse
\* order.
C25_Witness ==
    /\ last.op = "Sort"
    /\ Len(last.pre) = 3
    /\ \A p, q \in 1 .. 3 : p < q => LineLess(last.key, last.pre[q], last.pre[p])

(***************************************************************************)
(* C27: the flat file and its caller share no line.                        *)
(***************************************************************************)
\* No line of the caller has the field array of a line of the flat file,
\* and no two lines of the flat file have the same field array.
NoSharing ==
    /\ \A x \in Handles, i \in 1 .. Len(lines) :
          held[x] # NilLine => held[x].fields # lines[i].fields
    /\ \A i, j \in 1 .. Len(lines) : i # j => lines[i].fields # lines[j].fields

\* C27: the flat file never shares the state of a line with its caller.
\* Append(line) and Set(i, line) store a line equal to the caller's and leave
\* the caller's line alone; a Set or SetAt on a line of the caller, one that
\* was handed to Append or Set or came from Line(i) or Remove(i) included,
\* changes no line of the flat file; SetValue on a line of the flat file
\* changes no line of the caller; Line(i) changes no line of the flat file.
C27_Ownership ==
    [][/\ NoSharing'
       /\ last'.op \in {"Set", "SetAt"} => FileView(heap', lines') = FileView(heap, lines)
       /\ last'.op = "SetValue" => \A x \in Handles : LineView(x)' = LineView(x)
       /\ last'.op = "Line" => FileView(heap', lines') = FileView(heap, lines)
       /\ (last'.op = "Line" /\ last'.err = "")
             => LineViewOf(heap', held'[last'.h]) = LineViewOf(heap, lines[last'.i])
       /\ last'.op = "Append"
             => /\ \A x \in Handles : LineView(x)' = LineView(x)
                /\ FileView(heap', lines') =
                      Append(FileView(heap, lines), LineViewOf(heap, held[last'.h]))
       /\ (last'.op = "FileSet" /\ last'.err = "")
             => /\ \A x \in Handles : LineView(x)' = LineView(x)
                /\ FileView(heap', lines') =
                      [FileView(heap, lines) EXCEPT
                          ![last'.i] = LineViewOf(heap, held[last'.h])]
       /\ (last'.op = "Remove" /\ last'.err = "")
             => LineViewOf(heap', held'[1]) = LineViewOf(heap, lines[last'.i])]_vars

\* The caller has changed a line it got from the flat file or gave to it:
\* the flat file holds two lines with the fields of that line and the values
\* it had before.
C27_Witness ==
    /\ last.op \in {"Set", "SetAt"}
    /\ last.err = ""
    /\ Len(lines) = 2
    /\ \A i \in 1 .. 2 :
          /\ Formats(heap, lines[i]) = Formats(heap, held[last.h])
          /\ Values(heap, lines[i]) # Values(heap, held[last.h])

(***************************************************************************)
(* C28: the width of an encoded line and the gaps between its fields.      *)
(***************************************************************************)
\* out is as long as the line, has the fixed-width rendering of every field
\* at the field's offset and a space at every byte no field covers.
EncodesLine(out, fs, length) ==
    /\ out # Panic
    /\ Len(out) = length
    /\ \A i \in 1 .. Len(fs) :
          SubSeq(out, fs[i].index + 1, fs[i].index + fs[i].length) =
              CutAndPad(fs[i].value, fs[i].length)
    /\ \A p \in 1 .. length : (\A i \in 1 .. Len(fs) : ~Covers(fs[i], p)) => out[p] = SP

Encoded(x) ==
    /\ EncodesLine(LineString(heap, held[x]), Fields(heap, held[x]), held[x].length)
    /\ EncodesLine(LineBytes(heap, held[x]), Fields(heap, held[x]), held[x].length)

CmpIndexes == -1 .. MaxRaw
CmpLengths == -1 .. MaxRaw
CmpFmts == {NewFieldFmt(index, length) : index \in CmpIndexes, length \in CmpLengths}

\* A Compare that looks at the index only.
CompareByIndex(f, g) ==
    IF f.index < g.index THEN -1
    ELSE IF g.index < f.index THEN 1
    ELSE 0

\* f.Compare(g): the switch of fieldfmt.go, case by case.
Compare(f, g) ==
    IF f.index < g.index THEN -1
    ELSE IF g.index < f.index THEN 1
    ELSE IF f.length < g.length THEN -1
    ELSE IF g.length < f.length THEN 1
    ELSE 0

\* c := f.Compare(g).
DoCompare(f, g) ==
    /\ Alive
    /\ obj = "field"
    /\ last' = [Call("Compare") EXCEPT !.i = g.index, !.n = g.length,
                    !.src = Compare(f, g),
                    !.ret = [key |-> "", index |-> f.index, length |-> f.length,
                             value |-> <<>>]]
    /\ UNCHANGED <<obj, sliceVars, mapVars, fileVars, mfileVars>>

NextCompare ==
    \/ \E index \in CmpIndexes, length \in CmpLengths : DoNewFieldFmt(index, length)
    \/ \E f \in CmpFmts, g \in CmpFmts : DoCompare(f, g)

SpecCompare == Init /\ [][NextCompare]_vars

(***************************************************************************)
(* C29                                                                     *)
(***************************************************************************)
Compared == last.op = "Compare"
Receiver == NewFieldFmt(last.ret.index, last.ret.length)
Argument == NewFieldFmt(last.i, last.n)

\* C29: Compare(a, b) is -1 when a.index < b.index, or when the indexes are
\* equal and a.length < b.length; it is 0 exactly when index and length are
\* both equal; Compare(a, b) = -Compare(b, a); and it is transitive: when a
\* is not after b and b is not after c then a is not after c, and a is
\* before c when one of the two is strict.
C29_CompareOrder ==
    Compared =>
        LET a == Receiver
            b == Argument
        IN  /\ last.src \in {-1, 0, 1}
            /\ (a.index < b.index \/ (a.index = b.index /\ a.length < b.length))
                   => last.src = -1
            /\ last.src = 0 <=> (a.index = b.index /\ a.length = b.length)
            /\ last.src = -Compare(b, a)
            /\ \A c \in CmpFmts :
                   /\ (last.src <= 0 /\ Compare(b, c) <= 0) => Compare(a, c) <= 0
                   /\ (last.src < 0 /\ Compare(b, c) <= 0) => Compare(a, c) < 0
                   /\ (last.src <= 0 /\ Compare(b, c) < 0) => Compare(a, c) < 0

\* Two formats of the same index were compared, the receiver the shorter.
C29_Witness ==
    /\ Compared
    /\ Receiver.index = Argument.index
    /\ Receiver.length < Argument.length
    /\ last.src = -1


====
